---------------------------- MODULE Spec2Model ----------------------------
(***************************************************************************)
(* A model of the funmcp tool servers: the bearer-token gate of            *)
(* servers/helpers.py, the submit/poll/result client of the fal servers,   *)
(* the result extractors, the content-type and extension tables, and       *)
(* upload_to_s3.                                                           *)
(*                                                                         *)
(* Python strings are modelled as sequences of one-character strings, so   *)
(* that strip(), startswith(), split() and slicing are computed and not    *)
(* assumed.                                                                *)
(***************************************************************************)
EXTENDS Integers, Sequences, FiniteSets, TLC

VARIABLES
    \* ---- wait_for_completion (audio_clone_server.py, product_photoshoot_server.py)
    prov,        \* the status the provider holds for the submitted request
    wpc,         \* position of wait_for_completion: "poll", "fetch", "sleep", "returned", "raised"
    lastStatus,  \* the value of the local `status` (None before the first poll)
    polls,       \* number of get_status calls issued (saturates at MaxPolls)
    fetches,     \* number of get_result calls issued
    sleeps,      \* number of time.sleep calls issued (saturates at MaxPolls)
    now,         \* seconds slept so far (saturates at MaxTime)
    werror,      \* the exception raised out of wait_for_completion, or NoError
    lastCall,    \* the last call wait_for_completion made: "get_status", "get_result", "sleep"
    \* ---- one invocation of a tool wrapped in require_auth (helpers.py)
    ahdr,        \* req.headers.get("Authorization"): Nothing when the header is absent
    actx,        \* whether get_http_request() finds an HTTP request
    tool,        \* the wrapped tool function
    urlOk,       \* whether the tool's URL argument starts with http:// or https://
    apc,         \* position of the invocation
    vres,        \* what validate_token returned
    kwToken,     \* kwargs["auth_token"]
    logs,        \* the log records written so far
    net,         \* the network requests issued so far
    bodyEntered, \* whether func(*args, **kwargs) was called
    envelope,    \* the JSON envelope returned to the caller
    \* ---- one call of a result extractor
    extractor,   \* the extractor that is called
    payload,     \* the result dictionary the provider returned
    extracted,   \* what the extractor returned or raised, NotExtracted before the call
    \* ---- one call of infer_extension_from_content_type (helpers.py, grayscale_server.py)
    ctype,       \* the content_type argument: Nothing for None
    inferred,    \* the extension returned, Nothing before the call
    \* ---- one call of upload_to_s3 (helpers.py) from bria_background_replace
    filename,    \* the filename argument
    file_bytes,  \* the file_bytes argument
    upc,         \* position of the call: "presign", "post", "returned", "raised"
    presigned_data, \* response.json() of the phase-1 request
    urequests,   \* the requests upload_to_s3 issued so far
    uresponses,  \* the responses to them
    receipt,     \* the (s3_key, file_size) returned, Nothing if none
    uerror,      \* the exception raised out of upload_to_s3, None if none
    uenvelope,   \* the envelope the tool returned
    \* ---- the body of one tool that wraps its pipeline in try/except, up to upload_to_s3
    ttool,       \* the tool function
    targs,       \* its arguments: the first URL, the second URL, the text
    tpc,         \* position of the body: "validate", "provider", "download", "upload", "returned"
    tnet,        \* the provider calls and downloads issued so far
    tresp,       \* the response to the download
    \* ---- two invocations of one tool on one server (clone_audio or
    \* ---- create_product_banner_photo), run by the event loop of mcp.run
    server,      \* the tool the server offers
    loop,        \* the invocation the event loop is running, 0 if it runs none
    ipc,         \* position of each invocation
    itoken,      \* the auth_token of each invocation
    locals,      \* the local variables of each invocation
    given,       \* what the provider, the host and the API answered to each invocation
    fal,         \* the provider calls issued so far
    http,        \* the downloads and upload requests issued so far
    ienv,        \* the attachment of the envelope each invocation returned
    shared,      \* module-level state: os.environ["FAL_KEY"] and the client object
    \* ---- download_asset of the text-to-3D server
    aurl,        \* the URL it is called with
    aheader,     \* the Content-Type header of the response
    aext,        \* the extension it returned
    \* ---- process_long_task of fake_progress.py
    iterations,  \* its argument
    kpc,         \* position of the coroutine: the await it is about to make, or how it ended
    kstep,       \* the loop variable step, 0 before the loop
    reports,     \* the progress values reported so far, as fractions <<numerator, denominator>>
    kraised,     \* the first exception an await raised, None if none did
    kenv,        \* the envelope it returned
    \* ---- the call of a tool, as the client made it
    callerToken  \* the auth_token argument of the call, Nothing if it has none

waitVars == <<prov, wpc, lastStatus, polls, fetches, sleeps, now, werror, lastCall>>

authVars == <<ahdr, actx, tool, urlOk, apc, vres, kwToken, logs, net, bodyEntered, envelope>>

extractVars == <<extractor, payload, extracted>>

mimeVars == <<ctype, inferred>>

uploadVars ==
    <<filename, file_bytes, upc, presigned_data, urequests, uresponses, receipt, uerror,
      uenvelope>>

toolVars == <<ttool, targs, tpc, tnet, tresp>>

pairVars == <<server, loop, ipc, itoken, locals, given, fal, http, ienv, shared>>

assetVars == <<aurl, aheader, aext>>

taskVars == <<iterations, kpc, kstep, reports, kraised, kenv>>

callerVars == <<callerToken>>

vars == <<waitVars, authVars, extractVars, mimeVars, uploadVars, toolVars, pairVars, assetVars, taskVars, callerVars>>

\* what the actions of one part of the model leave alone
outsideWait == <<authVars, extractVars, mimeVars, uploadVars, toolVars, pairVars, assetVars, taskVars, callerVars>>

outsideAuth == <<waitVars, extractVars, mimeVars, uploadVars, toolVars, pairVars, assetVars, taskVars, callerVars>>

outsideExtract == <<waitVars, authVars, mimeVars, uploadVars, toolVars, pairVars, assetVars, taskVars, callerVars>>

outsideMime == <<waitVars, authVars, extractVars, uploadVars, toolVars, pairVars, assetVars, taskVars, callerVars>>

outsideUpload == <<waitVars, authVars, extractVars, mimeVars, toolVars, pairVars, assetVars, taskVars, callerVars>>

\* the extractor and the upload are steps of the tool body
outsideTool == <<waitVars, authVars, mimeVars, pairVars, assetVars, taskVars, callerVars>>

outsidePair == <<waitVars, authVars, extractVars, mimeVars, uploadVars, toolVars, assetVars, taskVars, callerVars>>

outsideCaller == <<waitVars, authVars, extractVars, mimeVars, uploadVars, toolVars, pairVars, assetVars, taskVars>>

outsideTask == <<waitVars, authVars, extractVars, mimeVars, uploadVars, toolVars, pairVars, assetVars, callerVars>>

outsideAsset == <<waitVars, authVars, extractVars, mimeVars, uploadVars, toolVars, pairVars, taskVars, callerVars>>

-----------------------------------------------------------------------------
(* Bounds of the model *)

MaxTime == 6
MaxPolls == 4
MaxPieces == 3
MaxList == 2
MaxBytes == 2

\* sleeps of one invocation inside wait_for_completion
MaxSleeps == 2

\* the largest value of the argument iterations
MaxIterations == 3
Deadline == 2

-----------------------------------------------------------------------------
(* Small helpers *)

Min(a, b) == IF a < b THEN a ELSE b

None == "None"

-----------------------------------------------------------------------------
(***************************************************************************)
(* wait_for_completion                                                     *)
(***************************************************************************)

\* poll_interval: int = 2, the default every caller uses
PollInterval == 2

\* type(status).__name__ of what fal_client.status returns
StatusNames == {"Queued", "InProgress", "Completed", "Failed", "Unknown"}

ProviderTerminal == {"Completed", "Failed"}

NoError == [kind |-> "none", status |-> None]

\* raise Exception(f"Request : {status}")
RequestException(status) == [kind |-> "Exception: Request : ", status |-> status]

\* an exception raised inside fal_client.status / fal_client.result
ClientException(call) == [kind |-> call, status |-> None]

IsPendingTreatsFailedAsPending(status) == status \in {"InProgress", "Queued", "Failed"}

\* status in ['InProgress', 'Queued']
IsPending(status) == status \in {"InProgress", "Queued"}

IsCompletedOrInProgress(status) == status \in {"Completed", "InProgress"}

\* status == 'Completed'
IsCompleted(status) == status = "Completed"

DispatchPollsAgain(status) ==
    IF IsCompleted(status) THEN "fetch" ELSE IF IsPending(status) THEN "poll" ELSE "raised"

DispatchSleepsOnCompleted(status) ==
    IF IsCompleted(status) \/ IsPending(status) THEN "sleep" ELSE "raised"

\* the if / elif / else of the loop body, given the status just observed
Dispatch(status) ==
    IF IsCompleted(status) THEN "fetch"
    ELSE IF IsPending(status) THEN "sleep"
    ELSE "raised"

\* The provider moves the job on. Completed and Failed are terminal.
ProviderAdvance ==
    /\ prov \notin ProviderTerminal
    /\ \E s \in StatusNames \ {prov} : prov' = s
    /\ UNCHANGED <<wpc, lastStatus, polls, fetches, sleeps, now, werror, lastCall>>
    /\ UNCHANGED outsideWait

\* status = self.get_status(request_id), then the branch on it
GetStatus ==
    /\ wpc = "poll"
    /\ polls' = Min(polls + 1, MaxPolls)
    /\ \/ /\ lastStatus' = prov
          /\ wpc' = Dispatch(prov)
          /\ werror' = IF Dispatch(prov) = "raised" THEN RequestException(prov) ELSE werror
       \/ \* fal_client.status raises
          /\ wpc' = "raised"
          /\ werror' = ClientException("status")
          /\ UNCHANGED lastStatus
    /\ lastCall' = "get_status"
    /\ UNCHANGED <<prov, fetches, sleeps, now>>
    /\ UNCHANGED outsideWait

\* return self.get_result(request_id)
GetResult ==
    /\ wpc = "fetch"
    /\ fetches' = fetches + 1
    /\ \/ /\ wpc' = "returned"
          /\ UNCHANGED werror
       \/ \* fal_client.result raises
          /\ wpc' = "raised"
          /\ werror' = ClientException("result")
    /\ lastCall' = "get_result"
    /\ UNCHANGED <<prov, lastStatus, polls, sleeps, now>>
    /\ UNCHANGED outsideWait

\* time.sleep(poll_interval), then the next iteration of while True
Sleep ==
    /\ wpc = "sleep"
    /\ sleeps' = Min(sleeps + 1, MaxPolls)
    /\ now' = Min(now + PollInterval, MaxTime)
    /\ wpc' = "poll"
    /\ lastCall' = "sleep"
    /\ UNCHANGED <<prov, lastStatus, polls, fetches, werror>>
    /\ UNCHANGED outsideWait

-----------------------------------------------------------------------------
(***************************************************************************)
(* Python strings and optional values                                      *)
(***************************************************************************)

Some(v) == [some |-> TRUE, val |-> v]

Nothing == [some |-> FALSE, val |-> <<>>]

\* s[:n]
Take(s, n) == SubSeq(s, 1, Min(n, Len(s)))

\* s[n:]
Drop(s, n) == SubSeq(s, n + 1, Len(s))

IsSpace(c) == c = " "

RECURSIVE LStrip(_)
LStrip(s) == IF s # <<>> /\ IsSpace(Head(s)) THEN LStrip(Tail(s)) ELSE s

RECURSIVE RStrip(_)
RStrip(s) == IF s # <<>> /\ IsSpace(s[Len(s)]) THEN RStrip(SubSeq(s, 1, Len(s) - 1)) ELSE s

\* str.strip()
Strip(s) == RStrip(LStrip(s))

\* str.startswith(p)
StartsWith(s, p) == Len(s) >= Len(p) /\ SubSeq(s, 1, Len(p)) = p

\* the positions at which sep occurs in s
Occurrences(s, sep) ==
    {i \in 1..(Len(s) - Len(sep) + 1) : SubSeq(s, i, i + Len(sep) - 1) = sep}

\* sep in s
Contains(s, sep) == sep = <<>> \/ Occurrences(s, sep) # {}

\* s.split(sep, 1)[1], for a sep that occurs in s: what follows its first occurrence
SplitOnceAfter(s, sep) ==
    LET i == CHOOSE k \in Occurrences(s, sep) : \A j \in Occurrences(s, sep) : k <= j
    IN  Drop(s, i + Len(sep) - 1)

-----------------------------------------------------------------------------
(***************************************************************************)
(* validate_token and require_auth (servers/helpers.py)                    *)
(***************************************************************************)

\* the literal "Bearer "
Bearer == <<"B", "e", "a", "r", "e", "r", " ">>

\* token[:10] in the log line of validate_token and of grayscale_image
LogPrefixLen == 10

Dots == <<".", ".", ".">>

LogRecord(level, text, arg) == [level |-> level, text |-> text, arg |-> arg]

VResult(ok, token, msg, written) ==
    [is_valid |-> ok, token |-> token, error |-> msg, logs |-> written]

NoResult == VResult(FALSE, Nothing, "not called", <<>>)

MissingHeader == "Missing Authorization header"

EmptyToken == "Empty authorization token"

NoContext == "Authentication error: no active HTTP request"

\* f"{token[:10]}..."
LoggedToken(token) == Take(token, LogPrefixLen) \o Dots

\* if not auth_header: None and the empty string are both falsy
HeaderIsFalsy(h) == ~h.some \/ h.val = <<>>

\* if token.startswith("Bearer "): token = token.split("Bearer ", 1)[1].strip()
PrefixStripped(t) ==
    IF StartsWith(t, Bearer) THEN Strip(SplitOnceAfter(t, Bearer)) ELSE t

validate_token_unstripped(ctx, h) ==
    IF ~ctx \/ HeaderIsFalsy(h) THEN VResult(FALSE, Nothing, MissingHeader, <<>>)
    ELSE VResult(TRUE, Some(h.val), "", <<>>)

\* validate_token(): (is_valid, token, error_message), and the log records it writes
validate_token(ctx, h) ==
    IF ~ctx
    THEN \* get_http_request() raises; except Exception as e
         VResult(FALSE, Nothing, NoContext,
                 <<LogRecord("error", "Authentication error: ", <<>>)>>)
    ELSE IF HeaderIsFalsy(h)
    THEN VResult(FALSE, Nothing, MissingHeader, <<>>)
    ELSE LET token == PrefixStripped(Strip(h.val))
         IN  IF token = <<>>
             THEN VResult(FALSE, Nothing, EmptyToken,
                          <<LogRecord("warning", "Empty token provided", <<>>)>>)
             ELSE VResult(TRUE, Some(token), "",
                          <<LogRecord("info", "Token validated successfully: ",
                                      LoggedToken(token))>>)

\* The envelopes the tools return (json.dumps of a dict)
Envelope(err, detail, hasAtt, atts) ==
    [error |-> err, detail |-> detail, has_attachments |-> hasAtt, attachments |-> atts]

NoEnvelope == Envelope("not returned", "", FALSE, <<>>)

\* {"error": f"Authentication failed: {error_msg}", "attachments": []}
AuthFailedEnvelope(msg) == Envelope("Authentication failed: ", msg, TRUE, <<>>)

\* {"error": ..., "attachments": []} of grayscale_image
ErrorEnvelope(err) == Envelope(err, "", TRUE, <<>>)

\* {"attachments": [{"s3_key": s3_key, "size": file_size}], "summary": ...}
SuccessEnvelope == Envelope("", "", TRUE, <<[s3_key |-> "file_id", size |-> "len(file_bytes)"]>>)

\* what a client may pass as the argument auth_token of the tool
CallerTokens == {Nothing, Some(<<"e", "v", "i", "l">>)}

KeepSuppliedToken(r, supplied) == IF supplied.some THEN supplied ELSE r.token

\* kwargs["auth_token"] = token
InjectedToken(r, supplied) == r.token

ShouldRejectNever(r) == FALSE /\ ~r.is_valid

\* if not is_valid
ShouldReject(r) == ~r.is_valid

\* wrapper(*args, **kwargs) of require_auth, up to the call of func
RequireAuth ==
    /\ apc = "wrapper"
    /\ LET r == validate_token(actx, ahdr)
       IN  /\ vres' = r
           /\ IF ShouldReject(r)
              THEN /\ logs' = logs \o r.logs \o
                              <<LogRecord("warning", "Authentication failed: ", <<>>)>>
                   /\ envelope' = AuthFailedEnvelope(r.error)
                   /\ apc' = "done"
                   /\ UNCHANGED <<kwToken, bodyEntered>>
              ELSE /\ logs' = logs \o r.logs
                   /\ kwToken' = InjectedToken(r, kwToken)
                   /\ bodyEntered' = TRUE
                   /\ apc' = "body"
                   /\ UNCHANGED envelope
    /\ UNCHANGED <<ahdr, actx, tool, urlOk, net>>
    /\ UNCHANGED outsideAuth

Request(kind, auth, timeout) == [kind |-> kind, authorization |-> auth, timeout |-> timeout]

\* HTTP_TIMEOUT = (15, 60), the (connect, read) timeouts of helpers.py
HTTP_TIMEOUT == <<15, 60>>

\* a call made without a timeout argument
NoTimeout == <<>>

\* an exception leaves the tool function
Escapes ==
    /\ apc' = "raised"
    /\ UNCHANGED envelope

\* return json.dumps(...)
Returns(e) ==
    /\ apc' = "done"
    /\ envelope' = e

\* grayscale_image: the log lines and the test of file_url
GrayscaleStart ==
    /\ apc = "body" /\ tool = "grayscale_image"
    /\ logs' = logs \o <<LogRecord("info", "Authenticated with token: ",
                                   IF kwToken.some THEN LoggedToken(kwToken.val)
                                   ELSE <<"N", "o", "n", "e">> \o Dots)>>
    /\ IF ~urlOk
       THEN Returns(ErrorEnvelope("file_url must start with http:// or https://"))
       ELSE apc' = "download" /\ UNCHANGED envelope
    /\ UNCHANGED <<ahdr, actx, tool, urlOk, vres, kwToken, net, bodyEntered>>
    /\ UNCHANGED outsideAuth

\* download_image(file_url) and convert_to_grayscale(image_bytes, ext)
GrayscaleDownload ==
    /\ apc = "download" /\ tool = "grayscale_image"
    /\ net' = Append(net, Request("GET file_url", Nothing, HTTP_TIMEOUT))
    /\ \/ Returns(ErrorEnvelope("Network error: "))
       \/ Returns(ErrorEnvelope("Downloaded file is not a valid image."))
       \/ Returns(ErrorEnvelope("Unexpected error: "))
       \/ apc' = "upload1" /\ UNCHANGED envelope
    /\ UNCHANGED <<ahdr, actx, tool, urlOk, vres, kwToken, logs, bodyEntered>>
    /\ UNCHANGED outsideAuth

\* how the tool treats an exception of upload_to_s3
UploadFails ==
    IF tool = "grayscale_image"
    THEN \/ Returns(ErrorEnvelope("Network error: "))
         \/ Returns(ErrorEnvelope("Unexpected error: "))
    ELSE Escapes

\* upload_to_s3: requests.post(f"{API_BASE_URL}/files/upload", headers=headers, ...)
UploadPhase1 ==
    /\ apc = "upload1"
    /\ net' = Append(net, Request("POST /files/upload", Some(Bearer \o kwToken.val), HTTP_TIMEOUT))
    /\ \/ UploadFails
       \/ apc' = "upload2" /\ UNCHANGED envelope
    /\ UNCHANGED <<ahdr, actx, tool, urlOk, vres, kwToken, logs, bodyEntered>>
    /\ UNCHANGED outsideAuth

\* upload_to_s3: requests.post(presigned_data["url"], ...), and the tool's return
UploadPhase2 ==
    /\ apc = "upload2"
    /\ net' = Append(net, Request("POST presigned url", Nothing, HTTP_TIMEOUT))
    /\ \/ UploadFails
       \/ Returns(SuccessEnvelope)
    /\ UNCHANGED <<ahdr, actx, tool, urlOk, vres, kwToken, logs, bodyEntered>>
    /\ UNCHANGED outsideAuth

\* clone_audio: client.clone_audio_async(audio_url=audio_url, prompt=prompt)
CloneSubmit ==
    /\ apc = "body" /\ tool = "clone_audio"
    /\ net' = Append(net, Request("submit fal-ai/zonos", Nothing, NoTimeout))
    /\ \/ Escapes
       \/ apc' = "wait" /\ UNCHANGED envelope
    /\ UNCHANGED <<ahdr, actx, tool, urlOk, vres, kwToken, logs, bodyEntered>>
    /\ UNCHANGED outsideAuth

\* clone_audio: client.wait_for_completion(request_id), as seen by its caller
CloneWait ==
    /\ apc = "wait"
    /\ net' = Append(net, Request("status fal-ai/zonos", Nothing, NoTimeout))
    /\ \/ Escapes
       \/ apc' = "extract" /\ UNCHANGED envelope
    /\ UNCHANGED <<ahdr, actx, tool, urlOk, vres, kwToken, logs, bodyEntered>>
    /\ UNCHANGED outsideAuth

\* clone_audio: client.extract_output_url(result), then
\* audio_response = requests.get(output_url), which passes no timeout
CloneDownload ==
    /\ apc = "extract"
    /\ \/ Escapes /\ UNCHANGED net
       \/ /\ net' = Append(net, Request("GET output_url", Nothing, NoTimeout))
          /\ \/ Escapes
             \/ apc' = "upload1" /\ UNCHANGED envelope
    /\ UNCHANGED <<ahdr, actx, tool, urlOk, vres, kwToken, logs, bodyEntered>>
    /\ UNCHANGED outsideAuth

-----------------------------------------------------------------------------
(***************************************************************************)
(* Python values of a provider result, and the result extractors           *)
(***************************************************************************)

\* Every value has the same fields: its type t, and its content as a scalar s, as the
\* items d of a dict (a function from its keys) or as the elements l of a list
PyValue(t, s, d, l) == [t |-> t, s |-> s, d |-> d, l |-> l]

PyNone == PyValue("NoneType", "None", <<>>, <<>>)

PyStr(x) == PyValue("str", x, <<>>, <<>>)

PyInt(x) == PyValue("int", x, <<>>, <<>>)

PyDict(f) == PyValue("dict", "", f, <<>>)

PyList(q) == PyValue("list", "", <<>>, q)

\* d.get(k)
Get(x, k) == IF k \in DOMAIN x.d THEN x.d[k] ELSE PyNone

\* what an extractor does: return (url, content_type) or raise
Returned(url, ct) == [raised |-> "", url |-> url, content_type |-> ct, carries |-> PyNone]

\* raise RuntimeError(f"Unexpected result format, no image URL found: {result}")
Raised(exc, result) == [raised |-> exc, url |-> PyNone, content_type |-> PyNone, carries |-> result]

NotExtracted == [raised |-> "not called", url |-> PyNone, content_type |-> PyNone, carries |-> PyNone]

\* isinstance(x, dict) and isinstance(x.get("url"), str)
HasUrl(x) == x.t = "dict" /\ Get(x, "url").t = "str"

extract_image_url_last(result) ==
    LET images == Get(result, "images")
        image  == Get(result, "image")
    IN  IF images.t = "list" /\ images.l # <<>> /\ HasUrl(images.l[Len(images.l)])
        THEN Returned(Get(images.l[Len(images.l)], "url"),
                      Get(images.l[Len(images.l)], "content_type"))
        ELSE IF HasUrl(image)
        THEN Returned(Get(image, "url"), Get(image, "content_type"))
        ELSE Raised("RuntimeError", result)

\* extract_image_url of background_replace_server.py and genfill_server.py
extract_image_url(result) ==
    LET images == Get(result, "images")
        image  == Get(result, "image")
    IN  IF images.t = "list" /\ images.l # <<>> /\ HasUrl(images.l[1])
        THEN Returned(Get(images.l[1], "url"), Get(images.l[1], "content_type"))
        ELSE IF HasUrl(image)
        THEN Returned(Get(image, "url"), Get(image, "content_type"))
        ELSE Raised("RuntimeError", result)

\* out_url, explicit_ct = extract_image_url(result)
ExtractImageUrl ==
    /\ extractor = "extract_image_url"
    /\ extracted = NotExtracted
    /\ extracted' = extract_image_url(payload)
    /\ UNCHANGED <<extractor, payload>>
    /\ UNCHANGED outsideExtract

\* the characters of the string values the payloads hold
StrChars(u) ==
    CASE u = "" -> <<>>
         [] u = "http://x/a.png" -> <<"h", "t", "t", "p", ":", "/", "/", "x", "/", "a", ".", "p", "n", "g">>
         [] u = "http://x/b.webp" -> <<"h", "t", "t", "p", ":", "/", "/", "x", "/", "b", ".", "w", "e", "b", "p">>
         [] u = "https://x/d.mp4" -> <<"h", "t", "t", "p", "s", ":", "/", "/", "x", "/", "d", ".", "m", "p", "4">>
         [] u = "ftp://x/c.glb" -> <<"f", "t", "p", ":", "/", "/", "x", "/", "c", ".", "g", "l", "b">>
         [] u = "httpx" -> <<"h", "t", "t", "p", "x">>
         [] u = "image/webp" -> <<"i", "m", "a", "g", "e", "/", "w", "e", "b", "p">>
         [] u = "video/mp4" -> <<"v", "i", "d", "e", "o", "/", "m", "p", "4">>
         [] u = "text/html" -> <<"t", "e", "x", "t", "/", "h", "t", "m", "l">>
         [] OTHER -> <<"?">>

\* bool(x)
Truthy(x) ==
    CASE x.t = "str" -> x.s # ""
      [] x.t = "int" -> x.s # "0"
      [] x.t = "dict" -> DOMAIN x.d # {}
      [] x.t = "list" -> x.l # <<>>
      [] OTHER -> FALSE

extract_video_url_top_first(result) ==
    LET video == Get(result, "video")
    IN  IF Get(result, "url").t = "str"
        THEN Returned(Get(result, "url"), PyNone)
        ELSE IF HasUrl(video)
        THEN Returned(Get(video, "url"), Get(video, "content_type"))
        ELSE Raised("RuntimeError", result)

\* isinstance(video, dict) and isinstance(video.get("url"), str), then the
\* top-level "url"; content_type is None for the top-level form
extract_video_url(result) ==
    LET video == Get(result, "video")
    IN  IF HasUrl(video)
        THEN Returned(Get(video, "url"), Get(video, "content_type"))
        ELSE IF Get(result, "url").t = "str"
        THEN Returned(Get(result, "url"), PyNone)
        ELSE Raised("RuntimeError", result)

\* isinstance(x, dict) and x.get("url")
HasTruthyUrl(x) == x.t = "dict" /\ Truthy(Get(x, "url"))

\* the part of generate_3d_with_fal that reads the URL out of the result of
\* fal_client.subscribe: "model", then "asset", then a top-level "url" that
\* starts with "http"
generate_3d_with_fal(result) ==
    LET model_dict    == Get(result, "model")
        asset_dict    == Get(result, "asset")
        url_candidate == Get(result, "url")
    IN  IF HasTruthyUrl(model_dict)
        THEN Returned(Get(model_dict, "url"), PyNone)
        ELSE IF HasTruthyUrl(asset_dict)
        THEN Returned(Get(asset_dict, "url"), PyNone)
        ELSE IF url_candidate.t = "str"
                /\ StartsWith(StrChars(url_candidate.s), <<"h", "t", "t", "p">>)
        THEN Returned(url_candidate, PyNone)
        ELSE Raised("RuntimeError", result)

\* an exception raised while an expression is evaluated
Exc(e, arg) == PyValue("exception", e, <<>>, <<arg>>)

\* x[k] for a string key k: KeyError(k) from a dict without k, TypeError from a
\* value that is no dict (None, a list, a string, a number)
Item(x, k) ==
    CASE x.t = "exception" -> x
      [] x.t = "dict" -> IF k \in DOMAIN x.d THEN x.d[k] ELSE Exc("KeyError", PyStr(k))
      [] OTHER -> Exc("TypeError", PyNone)

\* extract_output_url of audio_clone_server.py (key "audio") and of
\* product_photoshoot_server.py (key "image"): only KeyError and IndexError
\* become ValueError, whose message holds the KeyError and not the result
extract_output_url(result, key) ==
    LET url == Item(Item(result, key), "url")
        ct  == Item(Item(result, key), "content_type")
        e   == IF url.t = "exception" THEN url ELSE ct
    IN  IF e.t # "exception" THEN Returned(url, ct)
        ELSE IF e.s \in {"KeyError", "IndexError"} THEN Raised("ValueError", e.l[1])
        ELSE Raised(e.s, e.l[1])

\* out_url, _ct = extract_video_url(result)
ExtractVideoUrl ==
    /\ extractor = "extract_video_url"
    /\ extracted = NotExtracted
    /\ extracted' = extract_video_url(payload)
    /\ UNCHANGED <<extractor, payload>>
    /\ UNCHANGED outsideExtract

\* asset_url = generate_3d_with_fal(prompt.strip())
Generate3dWithFal ==
    /\ extractor = "generate_3d_with_fal"
    /\ extracted = NotExtracted
    /\ extracted' = generate_3d_with_fal(payload)
    /\ UNCHANGED <<extractor, payload>>
    /\ UNCHANGED outsideExtract

\* the key under which each extract_output_url looks
OutputKey == [FalAudioClone |-> "audio", FalProductPhotoshoot |-> "image"]

\* output_url, mime_type = client.extract_output_url(result)
ExtractOutputUrl ==
    /\ extractor \in DOMAIN OutputKey
    /\ extracted = NotExtracted
    /\ extracted' = extract_output_url(payload, OutputKey[extractor])
    /\ UNCHANGED <<extractor, payload>>
    /\ UNCHANGED outsideExtract

-----------------------------------------------------------------------------
(***************************************************************************)
(* The shared mappings of helpers.py and infer_extension_from_content_type *)
(***************************************************************************)

\* The items of each dict, in the order of the source: <<key, value>>
CONTENT_TYPE_MAPPING ==
    << <<<<"i", "m", "a", "g", "e", "/", "j", "p", "e", "g">>, <<".", "j", "p", "g">>>>,
       <<<<"i", "m", "a", "g", "e", "/", "j", "p", "g">>, <<".", "j", "p", "g">>>>,
       <<<<"i", "m", "a", "g", "e", "/", "p", "n", "g">>, <<".", "p", "n", "g">>>>,
       <<<<"i", "m", "a", "g", "e", "/", "w", "e", "b", "p">>, <<".", "w", "e", "b", "p">>>>,
       <<<<"i", "m", "a", "g", "e", "/", "b", "m", "p">>, <<".", "b", "m", "p">>>>,
       <<<<"i", "m", "a", "g", "e", "/", "t", "i", "f", "f">>, <<".", "t", "i", "f", "f">>>>,
       <<<<"i", "m", "a", "g", "e", "/", "g", "i", "f">>, <<".", "g", "i", "f">>>>,
       <<<<"m", "o", "d", "e", "l", "/", "g", "l", "t", "f", "-", "b", "i", "n", "a", "r", "y">>, <<".", "g", "l", "b">>>>,
       <<<<"m", "o", "d", "e", "l", "/", "g", "l", "t", "f", "+", "j", "s", "o", "n">>, <<".", "g", "l", "t", "f">>>>,
       <<<<"m", "o", "d", "e", "l", "/", "o", "b", "j">>, <<".", "o", "b", "j">>>>,
       <<<<"m", "o", "d", "e", "l", "/", "s", "t", "l">>, <<".", "s", "t", "l">>>>,
       <<<<"v", "i", "d", "e", "o", "/", "m", "p", "4">>, <<".", "m", "p", "4">>>>,
       <<<<"v", "i", "d", "e", "o", "/", "w", "e", "b", "m">>, <<".", "w", "e", "b", "m">>>>,
       <<<<"v", "i", "d", "e", "o", "/", "o", "g", "g">>, <<".", "o", "g", "v">>>>,
       <<<<"v", "i", "d", "e", "o", "/", "q", "u", "i", "c", "k", "t", "i", "m", "e">>, <<".", "m", "o", "v">>>>,
       <<<<"v", "i", "d", "e", "o", "/", "x", "-", "m", "a", "t", "r", "o", "s", "k", "a">>, <<".", "m", "k", "v">>>>,
       <<<<"v", "i", "d", "e", "o", "/", "x", "-", "m", "s", "v", "i", "d", "e", "o">>, <<".", "a", "v", "i">>>>,
       <<<<"v", "i", "d", "e", "o", "/", "m", "p", "e", "g">>, <<".", "m", "p", "g">>>>,
       <<<<"v", "i", "d", "e", "o", "/", "x", "-", "f", "l", "v">>, <<".", "f", "l", "v">>>>,
       <<<<"v", "i", "d", "e", "o", "/", "x", "-", "m", "s", "-", "w", "m", "v">>, <<".", "w", "m", "v">>>>,
       <<<<"a", "u", "d", "i", "o", "/", "m", "p", "e", "g">>, <<".", "m", "p", "3">>>>,
       <<<<"a", "u", "d", "i", "o", "/", "m", "p", "3">>, <<".", "m", "p", "3">>>>,
       <<<<"a", "u", "d", "i", "o", "/", "w", "a", "v">>, <<".", "w", "a", "v">>>>,
       <<<<"a", "u", "d", "i", "o", "/", "x", "-", "w", "a", "v">>, <<".", "w", "a", "v">>>>,
       <<<<"a", "u", "d", "i", "o", "/", "o", "g", "g">>, <<".", "o", "g", "g">>>>,
       <<<<"a", "u", "d", "i", "o", "/", "w", "e", "b", "m">>, <<".", "w", "e", "b", "m">>>>,
       <<<<"a", "u", "d", "i", "o", "/", "f", "l", "a", "c">>, <<".", "f", "l", "a", "c">>>>,
       <<<<"a", "u", "d", "i", "o", "/", "a", "a", "c">>, <<".", "a", "a", "c">>>>,
       <<<<"a", "u", "d", "i", "o", "/", "m", "p", "4">>, <<".", "m", "4", "a">>>>,
       <<<<"a", "u", "d", "i", "o", "/", "x", "-", "m", "4", "a">>, <<".", "m", "4", "a">>>> >>

EXT_TO_CONTENT_TYPE ==
    << <<<<".", "j", "p", "g">>, <<"i", "m", "a", "g", "e", "/", "j", "p", "e", "g">>>>,
       <<<<".", "j", "p", "e", "g">>, <<"i", "m", "a", "g", "e", "/", "j", "p", "e", "g">>>>,
       <<<<".", "p", "n", "g">>, <<"i", "m", "a", "g", "e", "/", "p", "n", "g">>>>,
       <<<<".", "w", "e", "b", "p">>, <<"i", "m", "a", "g", "e", "/", "w", "e", "b", "p">>>>,
       <<<<".", "b", "m", "p">>, <<"i", "m", "a", "g", "e", "/", "b", "m", "p">>>>,
       <<<<".", "t", "i", "f", "f">>, <<"i", "m", "a", "g", "e", "/", "t", "i", "f", "f">>>>,
       <<<<".", "t", "i", "f">>, <<"i", "m", "a", "g", "e", "/", "t", "i", "f", "f">>>>,
       <<<<".", "g", "i", "f">>, <<"i", "m", "a", "g", "e", "/", "g", "i", "f">>>>,
       <<<<".", "g", "l", "b">>, <<"m", "o", "d", "e", "l", "/", "g", "l", "t", "f", "-", "b", "i", "n", "a", "r", "y">>>>,
       <<<<".", "g", "l", "t", "f">>, <<"m", "o", "d", "e", "l", "/", "g", "l", "t", "f", "+", "j", "s", "o", "n">>>>,
       <<<<".", "o", "b", "j">>, <<"m", "o", "d", "e", "l", "/", "o", "b", "j">>>>,
       <<<<".", "s", "t", "l">>, <<"m", "o", "d", "e", "l", "/", "s", "t", "l">>>>,
       <<<<".", "m", "p", "4">>, <<"v", "i", "d", "e", "o", "/", "m", "p", "4">>>>,
       <<<<".", "w", "e", "b", "m">>, <<"v", "i", "d", "e", "o", "/", "w", "e", "b", "m">>>>,
       <<<<".", "o", "g", "v">>, <<"v", "i", "d", "e", "o", "/", "o", "g", "g">>>>,
       <<<<".", "m", "o", "v">>, <<"v", "i", "d", "e", "o", "/", "q", "u", "i", "c", "k", "t", "i", "m", "e">>>>,
       <<<<".", "m", "k", "v">>, <<"v", "i", "d", "e", "o", "/", "x", "-", "m", "a", "t", "r", "o", "s", "k", "a">>>>,
       <<<<".", "a", "v", "i">>, <<"v", "i", "d", "e", "o", "/", "x", "-", "m", "s", "v", "i", "d", "e", "o">>>>,
       <<<<".", "m", "p", "g">>, <<"v", "i", "d", "e", "o", "/", "m", "p", "e", "g">>>>,
       <<<<".", "f", "l", "v">>, <<"v", "i", "d", "e", "o", "/", "x", "-", "f", "l", "v">>>>,
       <<<<".", "w", "m", "v">>, <<"v", "i", "d", "e", "o", "/", "x", "-", "m", "s", "-", "w", "m", "v">>>>,
       <<<<".", "m", "p", "3">>, <<"a", "u", "d", "i", "o", "/", "m", "p", "e", "g">>>>,
       <<<<".", "w", "a", "v">>, <<"a", "u", "d", "i", "o", "/", "w", "a", "v">>>>,
       <<<<".", "o", "g", "g">>, <<"a", "u", "d", "i", "o", "/", "o", "g", "g">>>>,
       <<<<".", "f", "l", "a", "c">>, <<"a", "u", "d", "i", "o", "/", "f", "l", "a", "c">>>>,
       <<<<".", "a", "a", "c">>, <<"a", "u", "d", "i", "o", "/", "a", "a", "c">>>>,
       <<<<".", "m", "4", "a">>, <<"a", "u", "d", "i", "o", "/", "m", "p", "4">>>> >>

\* the keys of a dict
KeysOf(table) == {table[i][1] : i \in DOMAIN table}

\* table.get(k, default)
DictGet(table, k, default) ==
    IF k \in KeysOf(table)
    THEN table[CHOOSE i \in DOMAIN table : table[i][1] = k][2]
    ELSE default

UpperCase == <<"A", "B", "C", "D", "E", "F", "G", "H", "I", "J", "K", "L", "M",
               "N", "O", "P", "Q", "R", "S", "T", "U", "V", "W", "X", "Y", "Z">>

LowerCase == <<"a", "b", "c", "d", "e", "f", "g", "h", "i", "j", "k", "l", "m",
               "n", "o", "p", "q", "r", "s", "t", "u", "v", "w", "x", "y", "z">>

\* the letter of `to` at the position c has in `from`, c itself if it has none
Recase(c, from, to) ==
    IF \E i \in DOMAIN from : from[i] = c
    THEN to[CHOOSE i \in DOMAIN from : from[i] = c]
    ELSE c

\* str.lower()
Lower(s) == [i \in DOMAIN s |-> Recase(s[i], UpperCase, LowerCase)]

\* str.upper()
Upper(s) == [i \in DOMAIN s |-> Recase(s[i], LowerCase, UpperCase)]

\* s.split(c)[0]: what precedes the first c, all of s if there is none
SplitFirst(s, c) ==
    IF Occurrences(s, <<c>>) = {} THEN s
    ELSE Take(s, (CHOOSE k \in Occurrences(s, <<c>>) :
                        \A j \in Occurrences(s, <<c>>) : k <= j) - 1)

DotJpg == <<".", "j", "p", "g">>

infer_extension_from_content_type_no_lower(content_type) ==
    IF content_type = Nothing \/ content_type.val = <<>> THEN DotJpg
    ELSE DictGet(CONTENT_TYPE_MAPPING, Strip(SplitFirst(content_type.val, ";")), DotJpg)

\* infer_extension_from_content_type of helpers.py; grayscale_server.py has a
\* copy of it
infer_extension_from_content_type(content_type) ==
    IF content_type = Nothing \/ content_type.val = <<>> THEN DotJpg
    ELSE LET ct == Strip(SplitFirst(Lower(content_type.val), ";"))
         IN  DictGet(CONTENT_TYPE_MAPPING, ct, DotJpg)

\* ext = infer_extension_from_content_type(content_type), in download_image
InferExtension ==
    /\ inferred = Nothing
    /\ inferred' = Some(infer_extension_from_content_type(ctype))
    /\ UNCHANGED ctype
    /\ UNCHANGED outsideMime

-----------------------------------------------------------------------------
(***************************************************************************)
(* upload_to_s3 and the try block of bria_background_replace around it     *)
(***************************************************************************)

OctetStream == <<"a", "p", "p", "l", "i", "c", "a", "t", "i", "o", "n", "/", "o", "c", "t", "e", "t", "-", "s", "t", "r", "e", "a", "m">>

\* s.rfind(c), counted from 1, for a c that occurs in s
RFind(s, c) ==
    CHOOSE k \in Occurrences(s, <<c>>) : \A j \in Occurrences(s, <<c>>) : j <= k

\* ext = filename[filename.rfind('.'):].lower() if '.' in filename else '.jpg'
ExtOf(name) ==
    IF Contains(name, <<".">>) THEN Lower(Drop(name, RFind(name, ".") - 1)) ELSE DotJpg

ContentTypeCaseSensitive(name) ==
    IF Contains(name, <<".">>)
    THEN DictGet(EXT_TO_CONTENT_TYPE, Drop(name, RFind(name, ".") - 1), OctetStream)
    ELSE DictGet(EXT_TO_CONTENT_TYPE, DotJpg, OctetStream)

\* content_type = EXT_TO_CONTENT_TYPE.get(ext, "application/octet-stream")
ContentTypeOf(name) == DictGet(EXT_TO_CONTENT_TYPE, ExtOf(name), OctetStream)

\* auth_token, as the tool passes it
AuthToken == <<"t", "o", "k">>

UploadRequestWithToken(to, auth, name, ct, fields, data) ==
    [to |-> to, authorization |-> Some(Bearer \o AuthToken), filename |-> name,
     content_type |-> ct, fields |-> fields, data |-> data]

\* A request of upload_to_s3: where it goes, its Authorization header, the
\* filename and content type it names, the form fields and the bytes it carries
UploadRequest(to, auth, name, ct, fields, data) ==
    [to |-> to, authorization |-> auth, filename |-> name, content_type |-> ct,
     fields |-> fields, data |-> data]

\* A response: status 0 stands for a request that got no response (connection
\* error, timeout); json is "none" for a body that is no JSON, "list" for JSON
\* that is no object, "dict" for an object with the keys `keys`
Response(status, json, keys, url, fields, file_id) ==
    [status |-> status, json |-> json, keys |-> keys, url |-> url, fields |-> fields,
     file_id |-> file_id]

NoResponse == Response(0, "none", {}, "", "", "")

RaisesNever(status) == FALSE

RaisesForServerErrorOnly(status) == status >= 500 /\ status < 600

\* Response.raise_for_status() of requests raises HTTPError for 4xx and 5xx
RaisesForStatus(status) == status >= 400 /\ status < 600

\* the exceptions that `except requests.exceptions.RequestException` catches
RequestExceptions ==
    {"ConnectionError", "HTTPError", "JSONDecodeError", "MissingSchema", "InvalidSchema"}

ExceptEnvelopeWithKey(t, exc) ==
    Envelope("Network error: ", exc, TRUE, <<[s3_key |-> "k1", size |-> 0, filename |-> <<>>]>>)

\* the except clauses of bria_background_replace, bria_genfill and
\* bria_video_background_removal, and those of generate_photoshoot: {"error": ...}
ExceptEnvelope(t, exc) ==
    IF exc \in RequestExceptions THEN Envelope("Network error: ", exc, FALSE, <<>>)
    ELSE IF exc = "RuntimeError"
    THEN Envelope(IF t = "generate_photoshoot" THEN "AI Processing error: " ELSE "str(e)",
                  exc, FALSE, <<>>)
    ELSE Envelope(IF t = "generate_photoshoot" THEN "An unexpected error occurred: "
                  ELSE "Unexpected error: ", exc, FALSE, <<>>)

\* the except clause of the running tool that catches exc
ToolErrorEnvelope(exc) == ExceptEnvelope(ttool, exc)

\* the "summary" of the success envelope of each tool
SummaryOf(t) ==
    CASE t = "bria_genfill" -> "GenFill completed successfully."
      [] t = "generate_photoshoot" ->
            "The fashion photoshoot image has been successfully generated."
      [] t = "bria_video_background_removal" -> "Background removed from video successfully."
      [] OTHER -> "Background replaced successfully."

\* {"attachments": [{"s3_key": s3_key, "size": file_size, "filename": filename}],
\*  "summary": ...}
ToolSuccessEnvelope(s3_key, file_size, name) ==
    [error |-> "", detail |-> "", has_attachments |-> TRUE,
     attachments |-> <<[s3_key |-> s3_key, size |-> file_size, filename |-> name]>>,
     summary |-> SummaryOf(ttool)]

FileSizeWithBoundary(data) == Len(data) + 1

\* file_size = len(file_bytes)
FileSize(data) == Len(data)

\* upload_to_s3 raises exc, and the tool returns its error envelope
UploadRaises(exc) ==
    /\ upc' = "raised"
    /\ uerror' = exc
    /\ uenvelope' = ToolErrorEnvelope(exc)
    /\ UNCHANGED receipt

JsonWithFixedTarget(r) ==
    [keys |-> r.keys, url |-> "https://s3/a", fields |-> r.fields, file_id |-> r.file_id]

\* presigned_data = response.json(), for a body that is a JSON object
JsonOf(r) == [keys |-> r.keys, url |-> r.url, fields |-> r.fields, file_id |-> r.file_id]

NoJson == JsonOf(NoResponse)

StatusCodes == {200, 304, 403, 500}

Targets == {"https://s3/a", "https://s3/b"}

FormFields == {"{'key': 'a'}", "{'key': 'b'}"}

FileIds == {"k1", "k2"}

\* What the API may answer to the phase-1 request: nothing, a body that is no
\* JSON object, or an object with any of the keys "url", "fields", "file_id"
Phase1Responses ==
    {NoResponse}
        \cup {Response(st, j, {}, "", "", "") : st \in StatusCodes, j \in {"none", "list"}}
        \cup {Response(st, "dict", ks, IF "url" \in ks THEN u ELSE "",
                       IF "fields" \in ks THEN f ELSE "", IF "file_id" \in ks THEN k ELSE "") :
                st \in StatusCodes, ks \in SUBSET {"url", "fields", "file_id"},
                u \in Targets, f \in FormFields, k \in FileIds}

\* What the storage target may answer to the phase-2 request
Phase2Responses == {NoResponse} \cup {Response(st, "none", {}, "", "", "") : st \in StatusCodes}

\* upload_to_s3 up to presigned_data.get('url', 'N/A'): the phase-1 request
UploadPresign ==
    /\ upc = "presign"
    /\ urequests' = Append(urequests,
            UploadRequest("API_BASE_URL/files/upload", Some(Bearer \o AuthToken), filename,
                          ContentTypeOf(filename), "", <<>>))
    /\ \E r \in Phase1Responses :
        /\ uresponses' = Append(uresponses, r)
        /\ IF r.status = 0
           THEN UploadRaises("ConnectionError") /\ UNCHANGED presigned_data
           ELSE IF RaisesForStatus(r.status)
           THEN UploadRaises("HTTPError") /\ UNCHANGED presigned_data
           ELSE IF r.json = "none"
           THEN UploadRaises("JSONDecodeError") /\ UNCHANGED presigned_data
           ELSE IF r.json = "list"
           THEN UploadRaises("AttributeError") /\ presigned_data' = JsonOf(r)
           ELSE /\ presigned_data' = JsonOf(r)
                /\ upc' = "post"
                /\ UNCHANGED <<receipt, uerror, uenvelope>>
    /\ UNCHANGED <<filename, file_bytes>>
    /\ UNCHANGED outsideUpload

\* the rest of upload_to_s3: the phase-2 request, presigned_data["file_id"] and
\* the return; then the tool's return of its envelope
UploadPost ==
    /\ upc = "post"
    /\ IF "url" \notin presigned_data.keys
       THEN UploadRaises("KeyError") /\ UNCHANGED <<urequests, uresponses>>
       ELSE /\ urequests' = Append(urequests,
                    UploadRequest(presigned_data.url, Nothing, filename,
                                  ContentTypeOf(filename),
                                  IF "fields" \in presigned_data.keys
                                  THEN presigned_data.fields ELSE "{}",
                                  file_bytes))
            /\ \E r \in Phase2Responses :
                /\ uresponses' = Append(uresponses, r)
                /\ IF r.status = 0 THEN UploadRaises("ConnectionError")
                   ELSE IF RaisesForStatus(r.status) THEN UploadRaises("HTTPError")
                   ELSE IF "file_id" \notin presigned_data.keys THEN UploadRaises("KeyError")
                   ELSE /\ upc' = "returned"
                        /\ receipt' = <<presigned_data.file_id, FileSize(file_bytes)>>
                        /\ uenvelope' = ToolSuccessEnvelope(presigned_data.file_id,
                                                            FileSize(file_bytes), filename)
                        /\ UNCHANGED uerror
    /\ UNCHANGED <<filename, file_bytes, presigned_data>>
    /\ UNCHANGED outsideUpload

-----------------------------------------------------------------------------
(***************************************************************************)
(* Inputs                                                                  *)
(***************************************************************************)

LowerBearer == <<"b", "e", "a", "r", "e", "r", " ">>

LongToken == <<"a", "b", "c", "d", "e", "f", "g", "h", "i", "j", "k">>

\* Header values are built from these pieces
Pieces == {Bearer, LowerBearer, <<" ">>, <<"x">>, LongToken}

RECURSIVE HeaderValues(_)
HeaderValues(n) ==
    IF n = 0 THEN {<<>>}
    ELSE LET S == HeaderValues(n - 1) IN S \cup {s \o p : s \in S, p \in Pieces}

Headers == {Nothing} \cup {Some(v) : v \in HeaderValues(MaxPieces)}

Tools == {"grayscale_image", "clone_audio"}

\* The values a provider result is built from
Urls == {"http://x/a.png", "http://x/b.webp"}

UrlValues == {PyStr(u) : u \in Urls} \cup {PyStr(""), PyInt("1")}

ContentTypeValues == {PyStr("image/webp"), PyNone}

\* a dict over the keys ks, each key with one of its values
DictsOver(ks) ==
    {PyDict(f) : f \in [ks -> UrlValues \cup ContentTypeValues \cup {PyInt("1")}]}

WellKeyed(d) ==
    /\ "url" \in DOMAIN d.d => d.d["url"] \in UrlValues
    /\ "content_type" \in DOMAIN d.d => d.d["content_type"] \in ContentTypeValues
    /\ "foo" \in DOMAIN d.d => d.d["foo"] = PyInt("1")

\* {"url": ..., "content_type": ...} with either key present or not
ImageObjects ==
    {d \in DictsOver({"url"}) \cup DictsOver({"content_type"})
           \cup DictsOver({"url", "content_type"}) \cup DictsOver({"foo"}) : WellKeyed(d)}

ListElements == ImageObjects \cup {PyStr("http://x/a.png")}

RECURSIVE ListsUpTo(_)
ListsUpTo(n) ==
    IF n = 0 THEN {<<>>}
    ELSE LET S == ListsUpTo(n - 1) IN S \cup {Append(q, e) : q \in S, e \in ListElements}

Absent == PyValue("absent", "", <<>>, <<>>)

\* what the result holds under "images" and under "image" (Absent: no such key)
ImagesValues == {Absent, PyStr("http://x/a.png")} \cup {PyList(q) : q \in ListsUpTo(MaxList)}
                    \cup {d \in ImageObjects : "content_type" \notin DOMAIN d.d}

ImageValues == {Absent, PyNone, PyList(<<PyStr("http://x/a.png")>>)} \cup ImageObjects

\* the result dictionary with the given values, with or without an unrelated key "foo"
Result(images, image, foo) ==
    LET ks == (IF foo THEN {"foo"} ELSE {})
                      \cup (IF images = Absent THEN {} ELSE {"images"})
                      \cup (IF image = Absent THEN {} ELSE {"image"})
    IN  PyDict([k \in ks |-> IF k = "images" THEN images
                             ELSE IF k = "image" THEN image ELSE PyInt("1")])

Payloads ==
    {Result(images, image, foo) : images \in ImagesValues, image \in ImageValues,
                                  foo \in BOOLEAN}

\* the values under a "url" key of the video, 3D and audio results
OtherUrlValues ==
    {PyStr("https://x/d.mp4"), PyStr("ftp://x/c.glb"), PyStr(""), PyInt("1"), PyNone}

\* {"url": ..., "content_type": ...} with either key present or not, and {}
OtherObjects ==
    {PyDict(<<>>)}
        \cup {PyDict([k \in {"url"} |-> u]) : u \in OtherUrlValues}
        \cup {PyDict([k \in {"content_type"} |-> PyStr("video/mp4")])}
        \cup {PyDict([k \in {"url", "content_type"} |-> IF k = "url" THEN u ELSE c]) :
                    u \in OtherUrlValues, c \in {PyStr("video/mp4"), PyNone}}

\* what a result holds under a key that should hold an object
ObjectValues ==
    {Absent, PyNone, PyStr("https://x/d.mp4"), PyList(<<>>)}
        \cup {PyList(<<o>>) : o \in {PyDict([k \in {"url"} |-> PyStr("https://x/d.mp4")])}}
        \cup OtherObjects

\* what a result holds under its top-level "url"
TopUrlValues ==
    {Absent, PyStr("http://x/a.png"), PyStr("httpx"), PyStr("ftp://x/c.glb"), PyStr(""),
     PyInt("1")}

\* the dict that holds v[k] under each key k for which v[k] is not Absent
DictOf(v) == PyDict([k \in {j \in DOMAIN v : v[j] # Absent} |-> v[k]])

VideoPayloads ==
    {DictOf([video |-> v, url |-> u, foo |-> f]) :
        v \in ObjectValues, u \in TopUrlValues, f \in {Absent, PyInt("1")}}

\* fal_client.subscribe may also return something that is no dict
ModelPayloads ==
    {PyNone, PyStr("https://x/d.mp4")}
        \cup {DictOf([model |-> m, asset |-> a, url |-> u]) :
                    m \in OtherObjects \cup {Absent, PyNone}, a \in OtherObjects \cup {Absent},
                    u \in TopUrlValues}

OutputPayloads(key) ==
    {DictOf([k \in {key, "foo"} |-> IF k = key THEN o ELSE f]) :
        o \in ObjectValues, f \in {Absent, PyInt("1")}}

Extractors ==
    {"extract_image_url", "extract_video_url", "generate_3d_with_fal"} \cup DOMAIN OutputKey

\* the results each extractor is called with
PayloadsOf(e) ==
    CASE e = "extract_image_url" -> Payloads
      [] e = "extract_video_url" -> VideoPayloads
      [] e = "generate_3d_with_fal" -> ModelPayloads
      [] OTHER -> OutputPayloads(OutputKey[e])

\* Content types no table knows
UnknownTypes == {<<>>, <<"t", "e", "x", "t", "/", "h", "t", "m", "l">>, <<"i", "m", "a", "g", "e", "/", "p", "n", "g", "x">>}

\* What may stand before and after the type in a Content-Type header
Leading == {<<>>, <<" ">>}

Trailing == {<<>>, <<" ">>, <<";", "c", "h", "a", "r", "s", "e", "t", "=", "u", "t", "f", "-", "8">>, <<" ", ";", " ", "q", "=", "1">>}

\* The header value that holds the type `base`, in upper case if shout
HeaderValue(base, shout, pre, post) == pre \o (IF shout THEN Upper(base) ELSE base) \o post

ContentTypeArgs ==
    {Nothing} \cup
    {Some(HeaderValue(base, shout, pre, post)) :
        base \in KeysOf(CONTENT_TYPE_MAPPING) \cup UnknownTypes, shout \in BOOLEAN,
        pre \in Leading, post \in Trailing}

\* Filenames: a stem, then an extension of the table in lower or upper case,
\* an extension the table does not hold, or nothing
Stems == {<<"a">>, <<"a", ".", "t", "a", "r">>}

UnknownExts == {<<".">>, <<".", "x", "y", "z">>, <<".", "p", "n", "g", "x">>}

Filenames ==
    Stems \cup {stem \o ext : stem \in Stems, ext \in UnknownExts}
          \cup {stem \o (IF shout THEN Upper(ext) ELSE ext) :
                    stem \in Stems, ext \in KeysOf(EXT_TO_CONTENT_TYPE), shout \in BOOLEAN}

RECURSIVE BytesUpTo(_)
BytesUpTo(n) ==
    IF n = 0 THEN {<<>>}
    ELSE LET S == BytesUpTo(n - 1) IN S \cup {Append(b, 0) : b \in S}

-----------------------------------------------------------------------------
(***************************************************************************)
(* The tools that wrap their pipeline in try/except: bria_background_replace, *)
(* bria_genfill, generate_photoshoot and bria_video_background_removal     *)
(***************************************************************************)

\* url.startswith(p), for the characters p
UrlStartsWith(url, p) == StartsWith(StrChars(url), p)

HttpColon == <<"h", "t", "t", "p", ":", "/", "/">>

HttpsColon == <<"h", "t", "t", "p", "s", ":", "/", "/">>

\* not url or not (url.startswith("http://") or url.startswith("https://"))
NotHttpUrl(url) == url = "" \/ ~(UrlStartsWith(url, HttpColon) \/ UrlStartsWith(url, HttpsColon))

\* not garment_image_url.startswith("http"), of generate_photoshoot
NotHttpStart(url) == ~UrlStartsWith(url, <<"h", "t", "t", "p">>)

\* The input checks of each tool: the message of the error envelope it returns,
\* "" if it goes on to its try block
Rejection(t, a) ==
    CASE t = "bria_background_replace" ->
            IF NotHttpUrl(a.url) THEN "image_url must be a valid HTTP(S) URL"
            ELSE IF a.url2 # "" /\ a.text # ""
            THEN "Provide either ref_image_url or prompt, not both"
            ELSE ""
      [] t = "bria_genfill" ->
            IF NotHttpUrl(a.url) THEN "image_url must be a valid HTTP(S) URL"
            ELSE IF NotHttpUrl(a.url2) THEN "mask_url must be a valid HTTP(S) URL"
            ELSE IF a.text = "" THEN "prompt is required"
            ELSE ""
      [] t = "generate_photoshoot" ->
            IF NotHttpStart(a.url) THEN "garment_image_url must be a valid HTTP(S) URL."
            ELSE IF NotHttpStart(a.url2) THEN "face_image_url must be a valid HTTP(S) URL."
            ELSE IF a.text \notin {"male", "female"}
            THEN "gender must be either 'male' or 'female'."
            ELSE ""
      [] t = "bria_video_background_removal" ->
            IF NotHttpUrl(a.url) THEN "video_url must be a valid HTTP(S) URL" ELSE ""

\* return json.dumps({"error": message}), before or out of the try block
ToolReturnsError(e) ==
    /\ tpc' = "returned"
    /\ uenvelope' = e

\* the statements of the tool before its try block
ToolValidate ==
    /\ tpc = "validate"
    /\ IF Rejection(ttool, targs) # ""
       THEN ToolReturnsError(Envelope(Rejection(ttool, targs), "", FALSE, <<>>))
       ELSE tpc' = "provider" /\ UNCHANGED uenvelope
    /\ UNCHANGED <<ttool, targs, tnet, tresp>>
    /\ UNCHANGED <<filename, file_bytes, upc, presigned_data, urequests, uresponses, receipt,
                   uerror>>
    /\ UNCHANGED extractVars
    /\ UNCHANGED outsideTool

\* the extraction inside generate_fashion_photo_with_fal of try_fashion.py
generate_fashion_photo_with_fal(result) ==
    LET images == Get(result, "images")
    IN  IF Truthy(images) /\ images.t = "list" /\ Truthy(images.l[1])
           /\ images.l[1].t = "dict" /\ Truthy(Get(images.l[1], "url"))
        THEN Returned(Get(images.l[1], "url"), PyNone)
        ELSE Raised("RuntimeError", result)

\* the application each tool subscribes to
FalApp ==
    [bria_background_replace |-> "fal-ai/bria/background/replace",
     bria_genfill |-> "fal-ai/bria/genfill",
     generate_photoshoot |-> "easel-ai/fashion-photoshoot",
     bria_video_background_removal |-> "bria/video/background-removal"]

\* the extraction each tool applies to the result of fal_client.subscribe
ExtractorOf(t) ==
    CASE t = "generate_photoshoot" -> "generate_fashion_photo_with_fal"
      [] t = "bria_video_background_removal" -> "extract_video_url"
      [] OTHER -> "extract_image_url"

ExtractionOf(t, result) ==
    CASE ExtractorOf(t) = "generate_fashion_photo_with_fal" ->
            generate_fashion_photo_with_fal(result)
      [] ExtractorOf(t) = "extract_video_url" -> extract_video_url(result)
      [] OTHER -> extract_image_url(result)

\* {"url": url} or {"url": url, "content_type": ct}
UrlObject(url, ct) ==
    IF ct = "" THEN PyDict([k \in {"url"} |-> PyStr(url)])
    ELSE PyDict([k \in {"url", "content_type"} |-> IF k = "url" THEN PyStr(url) ELSE PyStr(ct)])

\* {key: value}
Single(key, value) == PyDict([k \in {key} |-> value])

\* What the provider may return to each tool: results of the documented shape
\* with and without a content type, results whose URL is no HTTP(S) URL, and
\* results without a URL
ToolResults(t) ==
    CASE t = "generate_photoshoot" ->
            {Single("images", PyList(<<UrlObject("http://x/a.png", "")>>)),
             Single("images", PyList(<<UrlObject("httpx", "")>>)),
             Single("images", PyList(<<>>))}
      [] t = "bria_video_background_removal" ->
            {Single("video", UrlObject("https://x/d.mp4", "video/mp4")),
             Single("video", UrlObject("https://x/d.mp4", "")),
             Single("url", PyStr("ftp://x/c.glb")),
             PyDict(<<>>)}
      [] OTHER ->
            {Single("images", PyList(<<UrlObject("http://x/a.png", "image/webp")>>)),
             Single("images", PyList(<<UrlObject("http://x/a.png", "text/html")>>)),
             Single("images", PyList(<<UrlObject("http://x/a.png", "")>>)),
             Single("image", UrlObject("ftp://x/c.glb", "")),
             PyDict(<<>>)}

\* A call the tool issues: a provider job ("submit") or a download ("get"), the
\* application or URL it goes to, the URL arguments it carries, the token it
\* carries in its arguments or headers (Nothing: none) and its timeout
ToolCall(kind, to, urls, auth, timeout) ==
    [kind |-> kind, to |-> to, urls |-> urls, authorization |-> auth, timeout |-> timeout]

\* AI_HTTP_TIMEOUT = (15, 180) of config.py
AI_HTTP_TIMEOUT == <<15, 180>>

\* the response to a download: status 0 stands for a request that got no
\* response; content_type is the Content-Type header, Nothing if there is none
DownloadResponse(status, ct, content) == [status |-> status, content_type |-> ct, content |-> content]

NoDownload == DownloadResponse(-1, Nothing, <<>>)

\* the exception of the tool's try block is caught and the envelope returned
ToolRaises(exc) == ToolReturnsError(ToolErrorEnvelope(exc))

\* the URL arguments the tool puts into the job it submits
SubmittedUrls(t, a) ==
    CASE t = "bria_video_background_removal" -> <<a.url>>
      [] OTHER -> <<a.url, a.url2>>

\* result = fal_client.subscribe(...) and the extraction of the output URL
ToolProvider ==
    /\ tpc = "provider"
    /\ tnet' = Append(tnet, ToolCall("submit", FalApp[ttool], SubmittedUrls(ttool, targs), Nothing, <<>>))
    /\ \/ /\ ToolRaises("FalClientError")
          /\ UNCHANGED extractVars
       \/ \E r \in ToolResults(ttool) :
            /\ extractor' = ExtractorOf(ttool)
            /\ payload' = r
            /\ extracted' = ExtractionOf(ttool, r)
            /\ IF extracted'.raised # ""
               THEN ToolRaises(extracted'.raised)
               ELSE tpc' = "download" /\ UNCHANGED uenvelope
    /\ UNCHANGED <<ttool, targs, tresp>>
    /\ UNCHANGED <<filename, file_bytes, upc, presigned_data, urequests, uresponses, receipt,
                   uerror>>
    /\ UNCHANGED outsideTool

\* requests.get sends nothing for a URL without the scheme http or https: it
\* raises MissingSchema or InvalidSchema
Unsendable(url) ==
    IF ~NotHttpUrl(url) THEN ""
    ELSE IF Contains(StrChars(url), <<":">>) THEN "InvalidSchema" ELSE "MissingSchema"

\* response.headers.get("Content-Type", default)
HeaderOr(ct, default) == IF ct.some THEN ct.val ELSE default

ImageJpeg == <<"i", "m", "a", "g", "e", "/", "j", "p", "e", "g">>

VideoExtBin(content_type) == <<".", "b", "i", "n">>

\* ext of download_file of video_background_removal_server.py
VideoExt(content_type) ==
    IF Contains(content_type, <<"w", "e", "b", "m">>) THEN <<".", "w", "e", "b", "m">>
    ELSE IF Contains(content_type, <<"m", "p", "4">>) THEN <<".", "m", "p", "4">>
    ELSE <<".", "b", "i", "n">>

\* the extension each tool gives the file: the one its download helper infers
\* from the response header; the bria image tools then replace it by the one
\* inferred from the content type of the result, if that one is truthy
OutputExt(t, header, explicit_ct) ==
    CASE t = "bria_video_background_removal" -> VideoExt(HeaderOr(header, OctetStream))
      [] t = "generate_photoshoot" ->
            infer_extension_from_content_type(Some(HeaderOr(header, <<>>)))
      [] OTHER ->
            IF Truthy(explicit_ct)
            THEN infer_extension_from_content_type(Some(StrChars(explicit_ct.s)))
            ELSE infer_extension_from_content_type(Some(HeaderOr(header, ImageJpeg)))

\* the stem of filename = f"...{ext}"
FileStem ==
    [bria_background_replace |-> <<"b", "r", "i", "a", "_", "b", "a", "c", "k", "g", "r", "o", "u", "n", "d", "_", "r", "e", "p", "l", "a", "c", "e">>,
     bria_genfill |-> <<"b", "r", "i", "a", "_", "g", "e", "n", "f", "i", "l", "l">>,
     generate_photoshoot |-> <<"f", "a", "s", "h", "i", "o", "n", "_", "p", "h", "o", "t", "o", "s", "h", "o", "o", "t">>,
     bria_video_background_removal |-> <<"b", "r", "i", "a", "_", "v", "i", "d", "e", "o", "_", "b", "g", "_", "r", "e", "m", "o", "v", "e", "d">>]

DownloadHeaders ==
    {Nothing, Some(OctetStream), Some(<<"v", "i", "d", "e", "o", "/", "m", "p", "4">>),
     Some(<<"i", "m", "a", "g", "e", "/", "p", "n", "g">>)}

\* What the host of the result may answer to the download
DownloadResponses ==
    {DownloadResponse(st, Nothing, <<>>) : st \in {0, 404}}
        \cup {DownloadResponse(st, ct, content) :
                st \in {200, 304}, ct \in DownloadHeaders, content \in BytesUpTo(MaxBytes)}

\* download_image / download_file, and the tool's statements up to the call of
\* upload_to_s3: filename = f"...{ext}"
ToolDownload ==
    /\ tpc = "download"
    /\ IF Unsendable(extracted.url.s) # ""
       THEN /\ ToolRaises(Unsendable(extracted.url.s))
            /\ UNCHANGED <<tnet, tresp, filename, file_bytes, upc>>
       ELSE /\ tnet' = Append(tnet, ToolCall("get", extracted.url.s, <<>>, Nothing, AI_HTTP_TIMEOUT))
            /\ \E r \in DownloadResponses :
                /\ tresp' = r
                /\ IF r.status = 0
                   THEN ToolRaises("ConnectionError") /\ UNCHANGED <<filename, file_bytes, upc>>
                   ELSE IF RaisesForStatus(r.status)
                   THEN ToolRaises("HTTPError") /\ UNCHANGED <<filename, file_bytes, upc>>
                   ELSE /\ filename' = FileStem[ttool]
                                \o OutputExt(ttool, r.content_type, extracted.content_type)
                        /\ file_bytes' = r.content
                        /\ upc' = "presign"
                        /\ tpc' = "upload"
                        /\ UNCHANGED uenvelope
    /\ UNCHANGED <<ttool, targs>>
    /\ UNCHANGED <<presigned_data, urequests, uresponses, receipt, uerror>>
    /\ UNCHANGED extractVars
    /\ UNCHANGED outsideTool

\* The arguments each tool is called with: URLs with and without the scheme
\* http, empty ones, and the text argument (prompt or gender) empty or not
ArgUrls == {"", "http://x/a.png", "ftp://x/c.glb", "httpx"}

ToolArgs(t) ==
    IF t = "bria_video_background_removal"
    THEN {[url |-> u, url2 |-> "", text |-> ""] : u \in ArgUrls}
    ELSE {[url |-> u, url2 |-> v, text |-> x] : u \in ArgUrls, v \in ArgUrls, x \in {"", "male"}}

-----------------------------------------------------------------------------
(***************************************************************************)
(* Two invocations of clone_audio or of create_product_banner_photo on the *)
(* event loop of one server                                                *)
(***************************************************************************)

Invocations == {1, 2}

AppIdElsewhere(t, op) ==
    IF op = "status" THEN "fal-ai/any" ELSE "fal-ai/zonos"

\* the application id each method of FalAudioClone and FalProductPhotoshoot
\* passes to fal_client.submit, fal_client.status and fal_client.result
AppId(t, op) ==
    IF t = "clone_audio"
    THEN [submit |-> "fal-ai/zonos", status |-> "fal-ai/zonos", result |-> "fal-ai/zonos"][op]
    ELSE [submit |-> "easel-ai/product-photoshoot", status |-> "easel-ai/product-photoshoot",
          result |-> "easel-ai/product-photoshoot"][op]

\* A provider call: who issued it, the operation, the application id and the
\* request id (for a submit: the id the provider returned, 0 if it raised)
FalCall(by, op, app, request_id) == [by |-> by, op |-> op, app |-> app, request_id |-> request_id]

\* A download or upload request: who issued it, what it is, the token of its
\* Authorization header and the bytes it carries
HttpCall(by, kind, token, data) == [by |-> by, kind |-> kind, token |-> token, data |-> data]

NoLocals == [request_id |-> 0, slept |-> 0, data |-> <<>>, s3_key |-> ""]

NothingGiven == [request_id |-> 0, data |-> <<>>, file_id |-> ""]

NoAttachment == [s3_key |-> "", size |-> -1]

TokenOfFirst(i) == itoken[1]

KeyOfFirstUpload(i) == locals[1].s3_key

\* return presigned_data["file_id"], file_size of upload_to_s3, as its caller
\* binds it: s3_key, file_size = upload_to_s3(...)
ReturnedKey(i) == locals[i].s3_key

\* the auth_token argument of the invocation, as passed to upload_to_s3
UploadToken(i) == itoken[i]

\* the request id the provider gives the next submit
FreshId == 1 + Cardinality({k \in DOMAIN fal : fal[k].op = "submit"})

\* The tool functions are coroutines without an await: from its first statement
\* to its return or its exception the invocation keeps the event loop
HoldsLoop(i) == loop = i

EscapeAndRetry(i) ==
    /\ ipc' = [ipc EXCEPT ![i] = "submit"]
    /\ UNCHANGED loop

\* an exception leaves the tool: the coroutine ends and the loop is free
Escape(i) ==
    /\ ipc' = [ipc EXCEPT ![i] = "raised"]
    /\ loop' = 0

\* the event loop starts the coroutine of a waiting invocation
PairStart(i) ==
    /\ ipc[i] = "admitted"
    /\ loop = 0
    /\ loop' = i
    /\ ipc' = [ipc EXCEPT ![i] = "submit"]
    /\ UNCHANGED <<server, itoken, locals, given, fal, http, ienv, shared>>
    /\ UNCHANGED outsidePair

\* request_id = client.clone_audio_async(...): fal_client.submit
PairSubmit(i) ==
    /\ ipc[i] = "submit" /\ HoldsLoop(i)
    /\ \/ /\ fal' = Append(fal, FalCall(i, "submit", AppId(server, "submit"), 0))
          /\ Escape(i)
          /\ UNCHANGED <<locals, given>>
       \/ /\ fal' = Append(fal, FalCall(i, "submit", AppId(server, "submit"), FreshId))
          /\ locals' = [locals EXCEPT ![i].request_id = FreshId]
          /\ given' = [given EXCEPT ![i].request_id = FreshId]
          /\ ipc' = [ipc EXCEPT ![i] = "poll"]
          /\ UNCHANGED loop
    /\ UNCHANGED <<server, itoken, http, ienv, shared>>
    /\ UNCHANGED outsidePair

\* wait_for_completion: status = self.get_status(request_id) and the branch on it
PairPoll(i) ==
    /\ ipc[i] = "poll" /\ HoldsLoop(i)
    /\ fal' = Append(fal, FalCall(i, "status", AppId(server, "status"), locals[i].request_id))
    /\ \/ ipc' = [ipc EXCEPT ![i] = "result"] /\ UNCHANGED loop
       \/ /\ locals[i].slept < MaxSleeps
          /\ ipc' = [ipc EXCEPT ![i] = "sleep"]
          /\ UNCHANGED loop
       \/ Escape(i)
    /\ UNCHANGED <<server, itoken, locals, given, http, ienv, shared>>
    /\ UNCHANGED outsidePair

\* wait_for_completion: time.sleep(poll_interval) returns
PairWake(i) ==
    /\ ipc[i] = "sleep" /\ HoldsLoop(i)
    /\ ipc' = [ipc EXCEPT ![i] = "poll"]
    /\ locals' = [locals EXCEPT ![i].slept = @ + 1]
    /\ UNCHANGED <<server, loop, itoken, given, fal, http, ienv, shared>>
    /\ UNCHANGED outsidePair

\* wait_for_completion: return self.get_result(request_id); then
\* client.extract_output_url(result)
PairResult(i) ==
    /\ ipc[i] = "result" /\ HoldsLoop(i)
    /\ fal' = Append(fal, FalCall(i, "result", AppId(server, "result"), locals[i].request_id))
    /\ \/ ipc' = [ipc EXCEPT ![i] = "download"] /\ UNCHANGED loop
       \/ Escape(i)
    /\ UNCHANGED <<server, itoken, locals, given, http, ienv, shared>>
    /\ UNCHANGED outsidePair

\* requests.get(output_url); raise_for_status(); image_data = response.content
PairDownload(i) ==
    /\ ipc[i] = "download" /\ HoldsLoop(i)
    /\ http' = Append(http, HttpCall(i, "GET output_url", "", <<>>))
    /\ \/ Escape(i) /\ UNCHANGED <<locals, given>>
       \/ \E content \in BytesUpTo(MaxBytes) :
            /\ locals' = [locals EXCEPT ![i].data = content]
            /\ given' = [given EXCEPT ![i].data = content]
            /\ ipc' = [ipc EXCEPT ![i] = "upload1"]
            /\ UNCHANGED loop
    /\ UNCHANGED <<server, itoken, fal, ienv, shared>>
    /\ UNCHANGED outsidePair

\* upload_to_s3(image_data, ..., auth_token): the phase-1 request
PairUpload1(i) ==
    /\ ipc[i] = "upload1" /\ HoldsLoop(i)
    /\ http' = Append(http, HttpCall(i, "POST /files/upload", UploadToken(i), <<>>))
    /\ \/ Escape(i) /\ UNCHANGED <<locals, given>>
       \/ \E k \in FileIds :
            /\ locals' = [locals EXCEPT ![i].s3_key = k]
            /\ given' = [given EXCEPT ![i].file_id = k]
            /\ ipc' = [ipc EXCEPT ![i] = "upload2"]
            /\ UNCHANGED loop
    /\ UNCHANGED <<server, itoken, fal, ienv, shared>>
    /\ UNCHANGED outsidePair

\* upload_to_s3: the phase-2 request; then the tool returns
\* {"attachments": [{"s3_key": s3_key, "size": file_size}], "summary": ...}
PairUpload2(i) ==
    /\ ipc[i] = "upload2" /\ HoldsLoop(i)
    /\ http' = Append(http, HttpCall(i, "POST presigned url", "", locals[i].data))
    /\ \/ Escape(i) /\ UNCHANGED ienv
       \/ /\ ienv' = [ienv EXCEPT ![i] = [s3_key |-> ReturnedKey(i),
                                         size |-> FileSize(locals[i].data)]]
          /\ ipc' = [ipc EXCEPT ![i] = "returned"]
          /\ loop' = 0
    /\ UNCHANGED <<server, itoken, locals, given, fal, shared>>
    /\ UNCHANGED outsidePair

-----------------------------------------------------------------------------
(***************************************************************************)
(* download_asset of meshy_text_to_3d_server.py                            *)
(***************************************************************************)

\* s.endswith(p)
EndsWith(s, p) == Len(s) >= Len(p) /\ SubSeq(s, Len(s) - Len(p) + 1, Len(s)) = p

download_asset_keeps_jpg(url, header) ==
    infer_extension_from_content_type(Some(HeaderOr(header, OctetStream)))

\* the extension download_asset returns for the URL and the Content-Type header
\* of the response (Nothing: the response has no such header)
download_asset(url, header) ==
    LET content_type == HeaderOr(header, OctetStream)
        ext          == infer_extension_from_content_type(Some(content_type))
        lowered_ct   == Lower(content_type)
        lowered_url  == Lower(url)
    IN  IF ext # DotJpg THEN ext
        ELSE IF Contains(lowered_ct, <<"g", "l", "t", "f", "-", "b", "i", "n", "a", "r", "y">>)
                    \/ EndsWith(lowered_url, <<".", "g", "l", "b">>)
        THEN <<".", "g", "l", "b">>
        ELSE IF Contains(lowered_ct, <<"g", "l", "t", "f">>)
                    \/ EndsWith(lowered_url, <<".", "g", "l", "t", "f">>)
        THEN <<".", "g", "l", "t", "f">>
        ELSE IF Contains(lowered_ct, <<"o", "b", "j">>) \/ EndsWith(lowered_url, <<".", "o", "b", "j">>)
        THEN <<".", "o", "b", "j">>
        ELSE IF Contains(lowered_ct, <<"s", "t", "l">>) \/ EndsWith(lowered_url, <<".", "s", "t", "l">>)
        THEN <<".", "s", "t", "l">>
        ELSE <<".", "b", "i", "n">>

\* ext of download_asset(url), for a response that raise_for_status lets pass
DownloadAsset ==
    /\ aext = Nothing
    /\ aurl # <<>>
    /\ aext' = Some(download_asset(aurl, aheader))
    /\ UNCHANGED <<aurl, aheader>>
    /\ UNCHANGED outsideAsset

\* URLs of 3D assets with each of the four suffixes, in lower and upper case, one
\* without a suffix and one of an image
AssetUrlTails ==
    {<<"m", ".", "g", "l", "b">>, <<"M", ".", "G", "L", "B">>, <<"m", ".", "g", "l", "t", "f">>, <<"m", ".", "o", "b", "j">>, <<"M", ".", "S", "T", "L">>, <<"m">>, <<"m", ".", "j", "p", "g">>, <<"g", "l", "b">>}

AssetUrls == {<<"h", "t", "t", "p", ":", "/", "/", "x", "/">> \o tail : tail \in AssetUrlTails}

\* content types no table knows that name a 3D format
UnknownModelTypes ==
    {<<"a", "p", "p", "l", "i", "c", "a", "t", "i", "o", "n", "/", "g", "l", "t", "f", "-", "b", "i", "n", "a", "r", "y">>, <<"a", "p", "p", "l", "i", "c", "a", "t", "i", "o", "n", "/", "g", "l", "t", "f">>, <<"t", "e", "x", "t", "/", "o", "b", "j">>, <<"a", "p", "p", "l", "i", "c", "a", "t", "i", "o", "n", "/", "v", "n", "d", ".", "m", "s", "-", "p", "k", "i", ".", "s", "t", "l">>, <<"a", "p", "p", "l", "i", "c", "a", "t", "i", "o", "n", "/", "x", "-", "g", "l", "t", "f", "-", "b", "i", "n", "a", "r", "y", "-", "o", "b", "j">>}

AssetHeaders ==
    {Nothing} \cup
    {Some(HeaderValue(base, shout, <<>>, post)) :
        base \in KeysOf(CONTENT_TYPE_MAPPING) \cup UnknownTypes \cup UnknownModelTypes
                    \cup {OctetStream},
        shout \in BOOLEAN, post \in Trailing}

-----------------------------------------------------------------------------
(***************************************************************************)
(* process_long_task of fake_progress.py                                   *)
(***************************************************************************)

Max(a, b) == IF a > b THEN a ELSE b

\* total_steps = max(1, iterations)
TotalSteps == Max(1, iterations)

\* A progress value as an exact fraction
Fraction(num, den) == <<num, den>>

LessEq(p, q) == p[1] * q[2] <= q[1] * p[2]

\* progress_percent = (step / total_steps) * 90
ProgressPercent(step, total) == Fraction(step * 90, total)

\* {"attachments": [fake_attachment], "summary": ...}
TaskSuccessEnvelope ==
    Envelope("", "", TRUE, <<[s3_key |-> "mock/processed/result_{iterations}_steps.zip",
                              size |-> 123456]>>)

\* { "error": f"An unexpected error occurred: {str(e)}" }
TaskErrorEnvelope == Envelope("An unexpected error occurred: ", "", FALSE, <<>>)

\* What an await does besides returning: it raises an Exception, which the
\* `except Exception` of the tool catches, or the task is cancelled while it is
\* suspended there: CancelledError is no Exception and leaves the tool
AwaitFails ==
    \/ kpc' = "handler" /\ kraised' = "Exception"
    \/ kpc' = "cancelled" /\ kraised' = "CancelledError"

\* await ctx.report_progress(progress=p, ...), going on at `next` when it returns
Report(at, p, next) ==
    /\ kpc = at
    /\ \/ reports' = Append(reports, p) /\ kpc' = next /\ UNCHANGED kraised
       \/ AwaitFails /\ UNCHANGED reports
    /\ UNCHANGED <<iterations, kenv>>
    /\ UNCHANGED outsideTask

\* await asyncio.sleep(...), going on at `next` when it returns; asyncio.sleep
\* raises nothing but the cancellation
TaskSleep(at, next) ==
    /\ kpc = at
    /\ \/ kpc' = next /\ UNCHANGED kraised
       \/ kpc' = "cancelled" /\ kraised' = "CancelledError"
    /\ UNCHANGED <<iterations, reports, kenv>>
    /\ UNCHANGED outsideTask

\* await ctx.report_progress(progress=0, ...)
ReportStart == Report("report 0", Fraction(0, 1), "sleep 0") /\ UNCHANGED kstep

\* await asyncio.sleep(1), then the loop begins: step = 1
SleepStart == TaskSleep("sleep 0", "report step") /\ kstep' = 1

\* await ctx.report_progress(progress=progress_percent, ...)
ReportStep ==
    Report("report step", ProgressPercent(kstep, TotalSteps), "sleep step") /\ UNCHANGED kstep

\* await asyncio.sleep(1.5), then the next iteration of for i in range(total_steps)
SleepStep ==
    /\ TaskSleep("sleep step", IF kstep < TotalSteps THEN "report step" ELSE "report 100")
    /\ kstep' = IF kpc' = "report step" THEN kstep + 1 ELSE kstep

\* await ctx.report_progress(progress=100, ...)
ReportEnd == Report("report 100", Fraction(100, 1), "sleep 100") /\ UNCHANGED kstep

\* await asyncio.sleep(1), then return json.dumps({"attachments": ...})
SleepEndAndReturn ==
    /\ kpc = "sleep 100"
    /\ \/ kpc' = "returned" /\ kenv' = TaskSuccessEnvelope /\ UNCHANGED kraised
       \/ kpc' = "cancelled" /\ kraised' = "CancelledError" /\ UNCHANGED kenv
    /\ UNCHANGED <<iterations, kstep, reports>>
    /\ UNCHANGED outsideTask

\* except Exception as e: await ctx.error(...), then return json.dumps({"error": ...});
\* an exception of ctx.error leaves the tool
TaskHandler ==
    /\ kpc = "handler"
    /\ \/ kpc' = "returned" /\ kenv' = TaskErrorEnvelope
       \/ kpc' = "raised" /\ UNCHANGED kenv
       \/ kpc' = "cancelled" /\ UNCHANGED kenv
    /\ UNCHANGED <<iterations, kstep, reports, kraised>>
    /\ UNCHANGED outsideTask

-----------------------------------------------------------------------------
(***************************************************************************)
(* Specifications                                                          *)
(***************************************************************************)

\* The client side of the loop before its first iteration
WaitStart(pc0) ==
    /\ wpc = pc0
    /\ lastStatus = None
    /\ polls = 0
    /\ fetches = 0
    /\ sleeps = 0
    /\ now = 0
    /\ werror = NoError
    /\ lastCall = None

\* An invocation before the wrapper runs
AuthStart(pc0) ==
    /\ apc = pc0
    /\ vres = NoResult
    /\ logs = <<>>
    /\ net = <<>>
    /\ bodyEntered = FALSE
    /\ envelope = NoEnvelope

\* No extractor is running
ExtractIdle == extractor = None /\ payload = PyNone /\ extracted = NotExtracted

\* No infer_extension_from_content_type is running
MimeIdle == ctype = Nothing /\ inferred = Nothing

\* upload_to_s3 before its first statement
UploadStart(pc0) ==
    /\ upc = pc0
    /\ presigned_data = NoJson
    /\ urequests = <<>>
    /\ uresponses = <<>>
    /\ receipt = <<>>
    /\ uerror = None
    /\ uenvelope = NoEnvelope

\* No tool body of the try/except kind is running
ToolIdle ==
    /\ ttool = None
    /\ targs = [url |-> "", url2 |-> "", text |-> ""]
    /\ tpc = "idle"
    /\ tnet = <<>>
    /\ tresp = NoDownload

\* No pair of invocations is running
PairIdle ==
    /\ server = None
    /\ loop = 0
    /\ ipc = [i \in Invocations |-> "idle"]
    /\ itoken = [i \in Invocations |-> ""]
    /\ locals = [i \in Invocations |-> NoLocals]
    /\ given = [i \in Invocations |-> NothingGiven]
    /\ fal = <<>>
    /\ http = <<>>
    /\ ienv = [i \in Invocations |-> NoAttachment]
    /\ shared = [FAL_KEY |-> "set at startup", client |-> "constructed at startup"]

\* No download_asset is running
AssetIdle == aurl = <<>> /\ aheader = Nothing /\ aext = Nothing

\* No process_long_task is running
TaskIdle ==
    /\ iterations = 0
    /\ kpc = "idle"
    /\ kstep = 0
    /\ reports = <<>>
    /\ kraised = None
    /\ kenv = NoEnvelope

\* The client passed no auth_token argument
CallerIdle == callerToken = Nothing

\* No upload_to_s3 is running
UploadIdle == filename = <<>> /\ file_bytes = <<>> /\ UploadStart("idle")

\* No wait_for_completion is running
WaitIdle == prov = "Queued" /\ WaitStart("idle")

\* No invocation is running
AuthIdle ==
    /\ ahdr = Nothing /\ actx = TRUE /\ tool = "clone_audio" /\ urlOk = TRUE
    /\ kwToken = Nothing
    /\ AuthStart("idle")

WaitInit ==
    /\ prov \in StatusNames
    /\ WaitStart("poll")
    /\ AuthIdle
    /\ ExtractIdle
    /\ MimeIdle
    /\ UploadIdle
    /\ ToolIdle
    /\ PairIdle
    /\ AssetIdle
    /\ TaskIdle
    /\ CallerIdle

WaitNext ==
    \/ ProviderAdvance
    \/ GetStatus
    \/ GetResult
    \/ Sleep

SpecWait == WaitInit /\ [][WaitNext]_vars

\* The thread running wait_for_completion keeps running: every call returns or raises.
LiveWait == SpecWait /\ WF_vars(GetStatus) /\ WF_vars(GetResult) /\ WF_vars(Sleep)

WaitDone == wpc \in {"returned", "raised"}

AuthInit ==
    /\ ahdr \in Headers
    /\ actx \in BOOLEAN
    /\ tool \in Tools
    /\ urlOk \in BOOLEAN
    /\ AuthStart("wrapper")
    /\ WaitIdle
    /\ ExtractIdle
    /\ MimeIdle
    /\ UploadIdle
    /\ ToolIdle
    /\ PairIdle
    /\ AssetIdle
    /\ TaskIdle
    /\ callerToken \in CallerTokens
    /\ kwToken = callerToken

AuthNext ==
    \/ RequireAuth
    \/ GrayscaleStart
    \/ GrayscaleDownload
    \/ UploadPhase1
    \/ UploadPhase2
    \/ CloneSubmit
    \/ CloneWait
    \/ CloneDownload

SpecAuth == AuthInit /\ [][AuthNext]_vars

ExtractInit ==
    /\ extractor \in Extractors
    /\ payload \in PayloadsOf(extractor)
    /\ extracted = NotExtracted
    /\ WaitIdle
    /\ AuthIdle
    /\ MimeIdle
    /\ UploadIdle
    /\ ToolIdle
    /\ PairIdle
    /\ AssetIdle
    /\ TaskIdle
    /\ CallerIdle

ExtractNext ==
    \/ ExtractImageUrl
    \/ ExtractVideoUrl
    \/ Generate3dWithFal
    \/ ExtractOutputUrl

SpecExtract == ExtractInit /\ [][ExtractNext]_vars

MimeInit ==
    /\ ctype \in ContentTypeArgs
    /\ inferred = Nothing
    /\ WaitIdle
    /\ AuthIdle
    /\ ExtractIdle
    /\ UploadIdle
    /\ ToolIdle
    /\ PairIdle
    /\ AssetIdle
    /\ TaskIdle
    /\ CallerIdle

MimeNext == InferExtension

SpecMime == MimeInit /\ [][MimeNext]_vars

UploadInit ==
    /\ filename \in Filenames
    /\ file_bytes \in BytesUpTo(MaxBytes)
    /\ UploadStart("presign")
    /\ WaitIdle
    /\ AuthIdle
    /\ ExtractIdle
    /\ MimeIdle
    /\ ToolIdle
    /\ PairIdle
    /\ AssetIdle
    /\ TaskIdle
    /\ CallerIdle

UploadNext ==
    \/ UploadPresign
    \/ UploadPost

SpecUpload == UploadInit /\ [][UploadNext]_vars

ToolNames ==
    {"bria_background_replace", "bria_genfill", "generate_photoshoot",
     "bria_video_background_removal"}

\* One call of one of the four tools, after require_auth let it through
ToolInit ==
    /\ ttool \in ToolNames
    /\ targs \in ToolArgs(ttool)
    /\ tpc = "validate"
    /\ tnet = <<>>
    /\ tresp = NoDownload
    /\ UploadIdle
    /\ ExtractIdle
    /\ WaitIdle
    /\ AuthIdle
    /\ MimeIdle
    /\ PairIdle
    /\ AssetIdle
    /\ TaskIdle
    /\ CallerIdle

ToolNext ==
    \/ ToolValidate
    \/ ToolProvider
    \/ ToolDownload
    \/ UploadPresign
    \/ UploadPost

SpecTool == ToolInit /\ [][ToolNext]_vars

\* Two invocations, each with its token, admitted by the server and waiting
\* for the event loop
PairInit ==
    /\ server \in {"clone_audio", "create_product_banner_photo"}
    /\ loop = 0
    /\ ipc = [i \in Invocations |-> "admitted"]
    /\ itoken \in [Invocations -> {"tok1", "tok2"}]
    /\ locals = [i \in Invocations |-> NoLocals]
    /\ given = [i \in Invocations |-> NothingGiven]
    /\ fal = <<>>
    /\ http = <<>>
    /\ ienv = [i \in Invocations |-> NoAttachment]
    /\ shared = [FAL_KEY |-> "set at startup", client |-> "constructed at startup"]
    /\ WaitIdle
    /\ AuthIdle
    /\ ExtractIdle
    /\ MimeIdle
    /\ UploadIdle
    /\ ToolIdle
    /\ AssetIdle
    /\ TaskIdle
    /\ CallerIdle

PairNext ==
    \E i \in Invocations :
        \/ PairStart(i)
        \/ PairSubmit(i)
        \/ PairPoll(i)
        \/ PairWake(i)
        \/ PairResult(i)
        \/ PairDownload(i)
        \/ PairUpload1(i)
        \/ PairUpload2(i)

SpecPair == PairInit /\ [][PairNext]_vars

\* One call of download_asset that got a response
AssetInit ==
    /\ aurl \in AssetUrls
    /\ aheader \in AssetHeaders
    /\ aext = Nothing
    /\ WaitIdle
    /\ AuthIdle
    /\ ExtractIdle
    /\ MimeIdle
    /\ UploadIdle
    /\ ToolIdle
    /\ PairIdle
    /\ TaskIdle
    /\ CallerIdle

AssetNext == DownloadAsset

SpecAsset == AssetInit /\ [][AssetNext]_vars

\* One call of process_long_task, at its first await
TaskInit ==
    /\ iterations \in -1..MaxIterations
    /\ kpc = "report 0"
    /\ kstep = 0
    /\ reports = <<>>
    /\ kraised = None
    /\ kenv = NoEnvelope
    /\ WaitIdle
    /\ AuthIdle
    /\ ExtractIdle
    /\ MimeIdle
    /\ UploadIdle
    /\ ToolIdle
    /\ PairIdle
    /\ AssetIdle
    /\ CallerIdle

TaskNext ==
    \/ ReportStart
    \/ SleepStart
    \/ ReportStep
    \/ SleepStep
    \/ ReportEnd
    \/ SleepEndAndReturn
    \/ TaskHandler

SpecTask == TaskInit /\ [][TaskNext]_vars

-----------------------------------------------------------------------------
(***************************************************************************)
(* Properties of wait_for_completion                                       *)
(***************************************************************************)

\* C1: get_result is never called while the last observed status is Queued or
\* InProgress (nor before any status was observed); it is called at most once,
\* and the call directly follows the first poll that observed Completed: no
\* poll is issued once Completed was observed.
C1_FetchOnlyAfterCompleted ==
    /\ [](fetches <= 1)
    /\ [](wpc = "fetch" => lastStatus = "Completed" /\ lastCall = "get_status")
    /\ [][fetches' # fetches =>
            /\ lastStatus = "Completed"
            /\ lastCall = "get_status"
            /\ fetches = 0]_vars
    /\ [][lastStatus = "Completed" => polls' = polls]_vars

C1_Witness ==
    /\ wpc = "returned"
    /\ fetches = 1
    /\ lastStatus = "Completed"
    /\ sleeps >= 1

\* C2: once the caller's deadline has passed, wait_for_completion issues no
\* further poll, even if the provider keeps reporting Queued or InProgress.
C2_NoPollAfterDeadline == [][now > Deadline => polls' = polls]_vars

\* C3: when a poll observes a status other than Completed, Queued or InProgress,
\* the wait fails with an error carrying that status, get_result is not called,
\* and no further poll is issued.
C3_OtherStatusRaises ==
    /\ [](lastStatus \notin {None, "Completed", "Queued", "InProgress"} =>
            /\ wpc = "raised"
            /\ werror = RequestException(lastStatus)
            /\ fetches = 0)
    /\ [][wpc = "raised" => polls' = polls /\ fetches' = fetches /\ wpc' = wpc]_vars

C3_Witness ==
    /\ lastStatus = "Unknown"
    /\ wpc = "raised"
    /\ werror = RequestException("Unknown")
    /\ polls >= 2

\* C4: once the provider's status is terminal (it never leaves Completed or
\* Failed), wait_for_completion eventually returns or raises, and the client
\* does not poll again after it has observed a terminal status.
C4_TerminatesOnTerminal ==
    /\ ((prov \in ProviderTerminal) ~> WaitDone)
    /\ [][(lastStatus \in ProviderTerminal) => (polls' = polls)]_vars

C4_Witness ==
    /\ prov = "Failed"
    /\ lastStatus = "Failed"
    /\ WaitDone
    /\ sleeps >= 2

-----------------------------------------------------------------------------
(***************************************************************************)
(* Properties of validate_token and require_auth                           *)
(***************************************************************************)

\* validate_token ran on a request that carries an Authorization header
Validated == vres # NoResult /\ actx /\ ahdr.some

\* the header value with one leading "Bearer " removed if it begins with it,
\* surrounding whitespace aside
WithoutOnePrefix(h) == Strip(IF StartsWith(h, Bearer) THEN Drop(h, Len(Bearer)) ELSE h)

\* C5: a header value that begins with "Bearer " has exactly that one leading
\* prefix removed, and a value that does not begin with it has nothing removed
\* (surrounding whitespace aside).
C5_ExactlyOnePrefixRemoved ==
    Validated /\ vres.is_valid => vres.token = Some(WithoutOnePrefix(ahdr.val))

\* C6: a header whose value is empty or whitespace-only once the optional
\* leading "Bearer " is removed fails with the empty-token error and no token.
C6_EmptyTokenRejected ==
    Validated /\ WithoutOnePrefix(ahdr.val) = <<>> =>
        /\ ~vres.is_valid
        /\ vres.token = Nothing
        /\ vres.error = EmptyToken

\* C7: a request without Authorization header fails with (False, None,
\* "Missing Authorization header"), and only such a request does.
C7_MissingHeaderIffAbsent ==
    vres # NoResult /\ actx =>
        (~ahdr.some <=>
            (~vres.is_valid /\ vres.token = Nothing /\ vres.error = MissingHeader))

\* C8: whenever validate_token fails, require_auth returns the envelope
\* {"error": "Authentication failed: ...", "attachments": []}, the wrapped tool
\* is not entered and no network request is issued.
C8_AuthGate ==
    vres # NoResult /\ ~vres.is_valid =>
        /\ apc = "done"
        /\ envelope = AuthFailedEnvelope(vres.error)
        /\ ~bodyEntered
        /\ net = <<>>

C8_Witness ==
    /\ vres.error = EmptyToken
    /\ envelope = AuthFailedEnvelope(EmptyToken)
    /\ tool = "clone_audio"

\* C9: no log record of an invocation with a valid token contains the whole
\* token.
C9_NoWholeTokenLogged ==
    vres.is_valid => \A i \in 1..Len(logs) : ~Contains(logs[i].arg, vres.token.val)

-----------------------------------------------------------------------------
(***************************************************************************)
(* Properties of the result extractors                                     *)
(***************************************************************************)

Keys(x) == DOMAIN x.d

\* C10: extract_image_url returns (u, None) for {"image": {"url": u}}, returns the
\* url and content_type of the first element for {"images": [{"url": u,
\* "content_type": c}, ...]}, and raises for a result with neither key, such as
\* {"foo": 1}.
C10_ExtractImageUrlExamples ==
    extractor = "extract_image_url" /\ extracted # NotExtracted =>
        /\ (Keys(payload) = {"image"} /\ Keys(Get(payload, "image")) = {"url"}
                /\ Get(Get(payload, "image"), "url").t = "str")
            => extracted = Returned(Get(Get(payload, "image"), "url"), PyNone)
        /\ (Get(payload, "images").t = "list" /\ Get(payload, "images").l # <<>>
                /\ Get(Get(payload, "images").l[1], "url").t = "str"
                /\ Get(Get(payload, "images").l[1], "content_type").t = "str")
            => extracted = Returned(Get(Get(payload, "images").l[1], "url"),
                                    Get(Get(payload, "images").l[1], "content_type"))
        /\ Keys(payload) \cap {"images", "image"} = {}
            => extracted.raised = "RuntimeError"

C10_Witness ==
    /\ extracted = Returned(PyStr("http://x/b.webp"), PyStr("image/webp"))
    /\ Keys(payload) = {"images"}
    /\ Len(Get(payload, "images").l) = 2
    /\ Get(Get(payload, "images").l[2], "url") = PyStr("http://x/a.png")

\* a string that begins with http:// or https://
IsHttpUrl(x) ==
    /\ x.t = "str"
    /\ \/ StartsWith(StrChars(x.s), <<"h", "t", "t", "p", ":", "/", "/">>)
       \/ StartsWith(StrChars(x.s), <<"h", "t", "t", "p", "s", ":", "/", "/">>)

\* The places an extractor looks at, in the order of its matchers: the object and
\* the content type the matcher would return with the object's "url"
Matchers ==
    LET images == Get(payload, "images")
        first  == IF images.t = "list" /\ images.l # <<>> THEN images.l[1] ELSE PyNone
        At(o, ct) == [obj |-> o, content_type |-> ct]
    IN  CASE extractor = "extract_image_url" ->
                <<At(first, Get(first, "content_type")),
                  At(Get(payload, "image"), Get(Get(payload, "image"), "content_type"))>>
          [] extractor = "extract_video_url" ->
                <<At(Get(payload, "video"), Get(Get(payload, "video"), "content_type")),
                  At(payload, PyNone)>>
          [] extractor = "generate_3d_with_fal" ->
                <<At(Get(payload, "model"), PyNone), At(Get(payload, "asset"), PyNone),
                  At(payload, PyNone)>>
          [] OTHER -> <<>>

\* C11: extract_image_url, extract_video_url and generate_3d_with_fal look at their
\* matchers in a fixed order (images[0] before image; video before the top-level
\* url; model before asset before the top-level url).  What is returned is the
\* url and the content type of one matcher, no earlier matcher holds an http(s)
\* URL, and a result in which some matcher holds an http(s) URL is not refused.
C11_FirstMatchWins ==
    extracted # NotExtracted /\ Matchers # <<>> =>
        /\ extracted.raised = "" =>
                \E i \in 1..Len(Matchers) :
                    /\ Matchers[i].obj.t = "dict"
                    /\ extracted.url = Get(Matchers[i].obj, "url")
                    /\ extracted.content_type = Matchers[i].content_type
                    /\ \A j \in 1..(i - 1) :
                            ~(Matchers[j].obj.t = "dict" /\ IsHttpUrl(Get(Matchers[j].obj, "url")))
        /\ (\E i \in 1..Len(Matchers) :
                Matchers[i].obj.t = "dict" /\ IsHttpUrl(Get(Matchers[i].obj, "url")))
            => extracted.raised = ""

C11_Witness ==
    /\ extractor = "generate_3d_with_fal"
    /\ Get(Get(payload, "model"), "url") = PyStr("")
    /\ Get(Get(payload, "asset"), "url") = PyStr("https://x/d.mp4")
    /\ Get(payload, "url") = PyStr("http://x/a.png")
    /\ extracted = Returned(PyStr("https://x/d.mp4"), PyNone)

\* C12: extract_image_url, extract_video_url and generate_3d_with_fal return only
\* a URL that is a string beginning with http:// or https://: an empty string
\* or a string of another scheme under a "url" key does not make a matcher win.
C12_OnlyValidUrlReturned ==
    extracted # NotExtracted /\ Matchers # <<>> /\ extracted.raised = ""
        => IsHttpUrl(extracted.url)

\* C13: whenever an extractor (extract_image_url, extract_video_url,
\* generate_3d_with_fal, or extract_output_url of the audio-clone and the
\* product-photoshoot server) finds no URL, the error it raises carries the
\* complete result it was given.
C13_ErrorCarriesPayload ==
    extracted # NotExtracted /\ extracted.raised # "" => extracted.carries = payload

\* C14: extract_output_url returns the url of a result whose "audio" (or
\* "image") object has a "url", whether or not the object has a
\* "content_type"; for every other shape of the result (key missing, None, a
\* list, a string, an object without "url") it raises ValueError and no other
\* exception.
C14_ContentTypeOptional ==
    extractor \in DOMAIN OutputKey /\ extracted # NotExtracted =>
        LET obj == Get(payload, OutputKey[extractor])
        IN  IF obj.t = "dict" /\ "url" \in DOMAIN obj.d
            THEN extracted.raised = "" /\ extracted.url = obj.d["url"]
            ELSE extracted.raised = "ValueError"

-----------------------------------------------------------------------------
(***************************************************************************)
(* Properties of the shared mappings                                       *)
(***************************************************************************)

\* C15: infer_extension_from_content_type returns the table's extension for a
\* recognised content type, in whatever case it is written, with or without
\* surrounding whitespace and a ";parameter" suffix, and ".jpg" for None, the
\* empty string and every content type the table does not hold.
C15_InferExtensionTotal ==
    inferred # Nothing =>
        /\ ctype = Nothing => inferred.val = DotJpg
        /\ \A shout \in BOOLEAN, pre \in Leading, post \in Trailing :
            /\ \A i \in DOMAIN CONTENT_TYPE_MAPPING :
                    ctype = Some(HeaderValue(CONTENT_TYPE_MAPPING[i][1], shout, pre, post))
                        => inferred.val = CONTENT_TYPE_MAPPING[i][2]
            /\ \A base \in UnknownTypes :
                    ctype = Some(HeaderValue(base, shout, pre, post))
                        => inferred.val = DotJpg

C15_Witness ==
    /\ ctype = Some(HeaderValue(<<"i", "m", "a", "g", "e", "/", "p", "n", "g">>, TRUE, <<" ">>, <<" ", ";", " ", "q", "=", "1">>))
    /\ inferred = Some(<<".", "p", "n", "g">>)

-----------------------------------------------------------------------------
(***************************************************************************)
(* Properties of upload_to_s3                                              *)
(***************************************************************************)

\* the storage target answered the phase-2 request with this status
Phase2Status == IF Len(uresponses) = 2 THEN uresponses[2].status ELSE 0

C17_IncompleteHandshakeNoPost ==
    /\ Len(uresponses) >= 1
    /\ uresponses[1].json = "dict"
    /\ uresponses[1].keys # {"url", "fields", "file_id"}
    => /\ Len(urequests) <= 1
       /\ upc # "returned"

\* the API answered the phase-1 request with this status (0: no answer)
Phase1Status == IF Len(uresponses) >= 1 THEN uresponses[1].status ELSE 0

C19_ReceiptIsFileIdAndLength ==
    upc = "returned" =>
        /\ "file_id" \in uresponses[1].keys
        /\ receipt = <<uresponses[1].file_id, Len(file_bytes)>>
        /\ urequests[2].data = file_bytes

C19_Witness ==
    /\ upc = "returned"
    /\ uresponses[1].file_id = "k2"
    /\ Len(file_bytes) = 2
    /\ receipt = <<"k2", 2>>

\* the content type the phase-1 request names
SentContentType == urequests[1].content_type

\* the phase-1 request names the table's content type when the filename ends in
\* an extension of the table, in either case, and application/octet-stream when
\* its last extension is none of the table
TableOrOctetStream ==
    /\ \A stem \in Stems, shout \in BOOLEAN, i \in DOMAIN EXT_TO_CONTENT_TYPE :
            filename = stem \o (IF shout THEN Upper(EXT_TO_CONTENT_TYPE[i][1])
                                ELSE EXT_TO_CONTENT_TYPE[i][1])
                => SentContentType = EXT_TO_CONTENT_TYPE[i][2]
    /\ \A stem \in Stems, ext \in UnknownExts :
            filename = stem \o ext => SentContentType = OctetStream
    /\ \A stem \in Stems :
            filename = stem /\ Contains(stem, <<".">>) => SentContentType = OctetStream

\* C20 as stated: the content type of the phase-1 request is the table's entry
\* for the filename's last extension, whatever its case, and
\* application/octet-stream for an extension the table does not hold and for a
\* filename without any extension.
C20_ContentTypeFromExtension ==
    urequests # <<>> =>
        /\ TableOrOctetStream
        /\ ~Contains(filename, <<".">>) => SentContentType = OctetStream

\* C20, amended: the content type of the phase-1 request is the table's entry
\* for the filename's last extension, whatever its case, and
\* application/octet-stream for an extension the table does not hold; a
\* filename without any "." is sent as image/jpeg.
C20_ContentTypeFromExtensionOrJpeg ==
    urequests # <<>> =>
        /\ TableOrOctetStream
        /\ ~Contains(filename, <<".">>) => SentContentType = <<"i", "m", "a", "g", "e", "/", "j", "p", "e", "g">>

C20_Witness ==
    /\ filename = <<"a", ".", "t", "a", "r", ".", "P", "N", "G">>
    /\ urequests # <<>>
    /\ urequests[1].content_type = <<"i", "m", "a", "g", "e", "/", "p", "n", "g">>

-----------------------------------------------------------------------------
(***************************************************************************)
(* Properties of the tool functions                                        *)
(***************************************************************************)

\* C21: whatever step fails after authentication (submit, poll, result fetch,
\* extraction, download, either upload phase), the tool returns an envelope
\* {"error": message}: no exception leaves the tool function.
C21_NoExceptionEscapes ==
    bodyEntered => apc # "raised"

\* the URL arguments each tool checks before its try block
CheckedUrls(t, a) ==
    CASE t \in {"bria_genfill", "generate_photoshoot"} -> {a.url, a.url2}
      [] OTHER -> {a.url}

\* the fields each tool requires: the prompt of bria_genfill, the gender of
\* generate_photoshoot
RequiredFields(t, a) ==
    CASE t \in {"bria_genfill", "generate_photoshoot"} -> {a.text}
      [] OTHER -> {}

\* C22: in every tool that checks a URL argument, a provider job, a download or
\* an upload request is issued only if every checked URL begins with "http://"
\* or "https://" and every required field is non-empty.
C22_NoRequestUnlessInputValid ==
    (tnet # <<>> \/ urequests # <<>>) =>
        /\ \A u \in CheckedUrls(ttool, targs) : ~NotHttpUrl(u)
        /\ \A f \in RequiredFields(ttool, targs) : f # ""

\* C23: bria_background_replace submits a job only when exactly one of
\* ref_image_url and prompt is provided: with both non-empty or both empty it
\* issues no network call.
C23_SubmitOnlyWithExactlyOne ==
    (ttool = "bria_background_replace" /\ (tnet # <<>> \/ urequests # <<>>)) =>
        ((targs.url2 # "") # (targs.text # ""))

DotMp4 == <<".", "m", "p", "4">>

\* the job completed with {"video": {"url": ..., "content_type": "video/mp4"}},
\* the download and both upload phases succeeded, and the handshake named "k1"
VideoRunSucceeded ==
    /\ ttool = "bria_video_background_removal"
    /\ Get(Get(payload, "video"), "content_type") = PyStr("video/mp4")
    /\ upc = "returned"
    /\ presigned_data.file_id = "k1"

\* the success envelope: one attachment with key k1, the length of the
\* downloaded bytes and the given file name, a summary, and no error
SuccessWith(name) ==
    /\ uenvelope.error = ""
    /\ uenvelope.attachments =
            <<[s3_key |-> "k1", size |-> Len(tresp.content), filename |-> name]>>
    /\ "summary" \in DOMAIN uenvelope
    /\ uenvelope.summary # ""

\* C24 as stated: when the job completes with a video result of content type
\* video/mp4, the download returns N bytes and the handshake returns file id k1,
\* the envelope has one attachment with s3_key k1, size N and a file name with the
\* extension .mp4, a summary and no error.
C24_EndToEndSuccess ==
    VideoRunSucceeded => SuccessWith(FileStem[ttool] \o DotMp4)

\* the Content-Type header of the download response names mp4 and not webm
DownloadSaysMp4 ==
    LET header == HeaderOr(tresp.content_type, OctetStream)
    IN  Contains(header, <<"m", "p", "4">>) /\ ~Contains(header, <<"w", "e", "b", "m">>)

\* C24, amended: the same, when the Content-Type header of the download response
\* contains "mp4" and not "webm"; in every successful run the extension is the
\* one download_file derives from that header.
C24_EndToEndSuccessByHeader ==
    VideoRunSucceeded =>
        /\ SuccessWith(FileStem[ttool] \o VideoExt(HeaderOr(tresp.content_type, OctetStream)))
        /\ DownloadSaysMp4 => SuccessWith(FileStem[ttool] \o DotMp4)

C24_Witness ==
    /\ VideoRunSucceeded
    /\ DownloadSaysMp4
    /\ Len(tresp.content) = MaxBytes

\* the tool issued a download
DownloadIssued == \E i \in DOMAIN tnet : tnet[i].kind = "get"

\* the provider job was submitted before the download, and a URL was extracted
\* from its result
DownloadAfterExtraction ==
    DownloadIssued =>
        /\ Len(tnet) = 2 /\ tnet[1].kind = "submit" /\ tnet[2].kind = "get"
        /\ extracted # NotExtracted /\ extracted.raised = ""
        /\ tnet[2].to = extracted.url.s

\* no response, or a response with a 4xx or 5xx status
NoAnswerOrErrorStatus(r) == r.status = 0 \/ (r.status >= 400 /\ r.status <= 599)

\* a step that failed is the last step: nothing after a failed provider call or
\* extraction, no upload after a failed download, no phase 2 after a failed phase 1
FailedStepIsLast ==
    /\ (tpc = "returned" /\ ~DownloadIssued) => urequests = <<>>
    /\ (extracted # NotExtracted /\ extracted.raised # "") => ~DownloadIssued
    /\ NoAnswerOrErrorStatus(tresp) => urequests = <<>>
    /\ (uresponses # <<>> /\ (NoAnswerOrErrorStatus(uresponses[1])
                                \/ uresponses[1].json # "dict")) => Len(urequests) = 1

C26_ErrorEnvelopeHasNoAttachment ==
    /\ uenvelope.error # "" => uenvelope.attachments = <<>>
    /\ envelope.error # "" => envelope.attachments = <<>>

\* the bytes were posted and accepted, and upload_to_s3 then failed on
\* presigned_data["file_id"]
C26_Witness ==
    /\ tpc = "upload"
    /\ upc = "raised"
    /\ uerror = "KeyError"
    /\ Len(uresponses) = 2 /\ uresponses[2].status = 200
    /\ urequests[2].data # <<>>
    /\ uenvelope.error # ""

\* the requests that move the artifact: the download and the two upload phases
ArtifactRequests == {"GET file_url", "GET output_url", "POST /files/upload", "POST presigned url"}

\* C27: every download and every upload request, phase 1 and phase 2, is issued
\* with a connect/read timeout.
C27_EveryTransferHasTimeout ==
    \A i \in DOMAIN net :
        net[i].kind \in ArtifactRequests =>
            (Len(net[i].timeout) = 2 /\ net[i].timeout[1] > 0 /\ net[i].timeout[2] > 0)

-----------------------------------------------------------------------------
(***************************************************************************)
(* Properties of concurrent invocations                                    *)
(***************************************************************************)

\* the invocation is inside time.sleep, between two polls
Sleeping(i) == ipc[i] = "sleep"

\* C28: one slow job does not stall others: while one invocation sleeps between
\* two polls, the sleep has yielded control to the runtime, and another admitted
\* invocation can make progress.
C28_SleepYieldsToOthers ==
    \A i \in Invocations : \A j \in Invocations \ {i} :
        (Sleeping(i) /\ ipc[j] = "admitted") =>
            /\ ~HoldsLoop(i)
            /\ ENABLED PairStart(j)

\* what invocation i sends is its own: the request id its submit returned, its
\* token, the bytes its download returned
SendsItsOwn(i) ==
    /\ \A k \in DOMAIN fal :
        (fal[k].by = i /\ fal[k].op \in {"status", "result"}) =>
            /\ fal[k].request_id = given[i].request_id
            /\ \A j \in Invocations \ {i} : fal[k].request_id # given[j].request_id
    /\ \A k \in DOMAIN http :
        /\ (http[k].by = i /\ http[k].kind = "POST /files/upload") => http[k].token = itoken[i]
        /\ (http[k].by = i /\ http[k].kind = "POST presigned url") => http[k].data = given[i].data

\* the envelope of invocation i names the file id and the length of the bytes
\* that were answered to i
ReturnsItsOwn(i) ==
    IF ipc[i] = "returned"
    THEN ienv[i] = [s3_key |-> given[i].file_id, size |-> Len(given[i].data)]
    ELSE ienv[i] = NoAttachment

\* C29: for every interleaving of two invocations, what each sends and returns
\* depends only on its own token and on the answers to its own requests, and the
\* state they share (os.environ["FAL_KEY"], the client object) is never written
\* after startup.
C29_InvocationsIndependent ==
    /\ [](\A i \in Invocations : SendsItsOwn(i) /\ ReturnsItsOwn(i))
    /\ [][shared' = shared]_vars

C29_Witness ==
    /\ ipc[1] = "returned" /\ ipc[2] = "returned"
    /\ itoken[1] # itoken[2]
    /\ ienv[1] # ienv[2]
    /\ given[1].request_id # given[2].request_id

\* C30: every status poll and every result fetch goes to the application id under
\* which its request id was submitted, and carries exactly the request id which
\* that submit returned to the same invocation.
C30_HandleStaysWithItsApp ==
    \A k \in DOMAIN fal :
        fal[k].op \in {"status", "result"} =>
            \E m \in 1..(k - 1) :
                /\ fal[m].op = "submit"
                /\ fal[m].by = fal[k].by
                /\ fal[m].request_id # 0
                /\ fal[m].request_id = fal[k].request_id
                /\ fal[m].app = fal[k].app

\* both invocations submitted, polled more than once and fetched their results
C30_Witness ==
    \A i \in Invocations :
        /\ locals[i].slept > 0
        /\ \E k \in DOMAIN fal : fal[k].by = i /\ fal[k].op = "result"

-----------------------------------------------------------------------------
(***************************************************************************)
(* Properties of the pipeline as a whole                                   *)
(***************************************************************************)

\* the number of provider calls `op` and of requests `kind` of invocation i
FalCount(i, op) == Cardinality({k \in DOMAIN fal : fal[k].by = i /\ fal[k].op = op})

HttpCount(i, kind) == Cardinality({k \in DOMAIN http : http[k].by = i /\ http[k].kind = kind})

\* what invocation i has sent so far
SentBy(i) == <<SelectSeq(fal, LAMBDA c : c.by = i), SelectSeq(http, LAMBDA c : c.by = i)>>

AttemptedOnce(i) ==
    /\ FalCount(i, "submit") <= 1
    /\ FalCount(i, "result") <= 1
    /\ \A kind \in {"GET output_url", "POST /files/upload", "POST presigned url"} :
            HttpCount(i, kind) <= 1

\* C31: within one invocation there is at most one job submit, one result fetch,
\* one GET of the artifact, one phase-1 and one phase-2 request, and after the
\* first failure the invocation sends nothing more; only the status poll is
\* repeated.
C31_NoRetries ==
    /\ [](\A i \in Invocations : AttemptedOnce(i))
    /\ [][\A i \in Invocations : (ipc[i] = "raised") => (SentBy(i)' = SentBy(i))]_vars

\* an invocation polled three times and went through every step once
C31_Witness ==
    \E i \in Invocations :
        /\ ipc[i] = "returned"
        /\ FalCount(i, "status") = MaxSleeps + 1
        /\ HttpCount(i, "POST presigned url") = 1

\* both uploads were made, of identical bytes, and the backend issued a fresh
\* file id for each phase-1 request
TwoUploadsOfSameBytes ==
    /\ \A i \in Invocations : ipc[i] = "returned"
    /\ given[1].data = given[2].data
    /\ given[1].file_id # given[2].file_id

\* C32: every call of upload_to_s3 issues its own phase-1 request and returns the
\* key that request answered; with a backend that issues a fresh file_id per
\* request, two uploads of identical bytes return two distinct keys.
C32_UploadsNotDeduplicated ==
    /\ \A i \in Invocations :
        ipc[i] = "returned" =>
            /\ HttpCount(i, "POST /files/upload") = 1
            /\ ienv[i].s3_key = given[i].file_id
    /\ TwoUploadsOfSameBytes => ienv[1].s3_key # ienv[2].s3_key

C32_Witness ==
    /\ TwoUploadsOfSameBytes
    /\ Len(given[1].data) = MaxBytes

\* C33: wait_for_completion strictly alternates poll and sleep: the first poll
\* comes without a sleep, a sleep of exactly poll_interval follows each
\* Queued/InProgress observation and precedes the next poll, no sleep follows a
\* terminal observation, and no two polls come without a sleep between them.
C33_PollAndSleepAlternate ==
    /\ [](/\ (wpc = "poll") => (lastCall \in {None, "sleep"})
          /\ (lastCall = None) => (polls = 0 /\ sleeps = 0 /\ now = 0)
          /\ (wpc = "sleep") => (lastCall = "get_status" /\ IsPending(lastStatus))
          /\ (lastCall = "get_status" /\ ~IsPending(lastStatus)) => (wpc \in {"fetch", "raised"})
          /\ (polls < MaxPolls) => (sleeps = IF wpc = "poll" THEN polls ELSE polls - 1)
          /\ now = Min(sleeps * PollInterval, MaxTime))
    /\ [][(wpc \in {"fetch", "returned", "raised"}) => (sleeps' = sleeps /\ now' = now)]_vars
    /\ [][(lastCall = "get_status" /\ lastCall' = "get_status") => (polls' = polls)]_vars

\* two sleeps were taken, the third poll saw the job completed and the result
\* was fetched
C33_Witness ==
    /\ wpc = "returned"
    /\ polls = 3
    /\ sleeps = 2
    /\ now = 2 * PollInterval

BriaImageTools == {"bria_background_replace", "bria_genfill"}

\* the result names a content type that the content-type table holds
PayloadTypeInTable ==
    /\ extracted.content_type.t = "str"
    /\ StrChars(extracted.content_type.s) \in KeysOf(CONTENT_TYPE_MAPPING)

\* the extension download_image derived from the Content-Type header
HeaderExt == infer_extension_from_content_type(Some(HeaderOr(tresp.content_type, ImageJpeg)))

\* C34: in bria_background_replace and bria_genfill, when the content_type of the
\* provider result is absent or is not in the content-type table, the uploaded
\* file keeps the extension derived from the Content-Type header of the download.
C34_HeaderExtKeptUnlessPrecise ==
    (ttool \in BriaImageTools /\ tpc = "upload" /\ ~PayloadTypeInTable) =>
        filename = FileStem[ttool] \o HeaderExt

-----------------------------------------------------------------------------
(***************************************************************************)
(* Properties of download_asset                                            *)
(***************************************************************************)

\* the content type of the response as the table is asked for it
AssetType == Strip(SplitFirst(Lower(HeaderOr(aheader, OctetStream)), ";"))

\* the rules for 3D formats, in the order they are tried: what the content type
\* must contain or the URL end with, and the extension that follows
ModelRules ==
    <<[word |-> <<"g", "l", "t", "f", "-", "b", "i", "n", "a", "r", "y">>, ext |-> <<".", "g", "l", "b">>],
      [word |-> <<"g", "l", "t", "f">>, ext |-> <<".", "g", "l", "t", "f">>],
      [word |-> <<"o", "b", "j">>, ext |-> <<".", "o", "b", "j">>],
      [word |-> <<"s", "t", "l">>, ext |-> <<".", "s", "t", "l">>]>>

RuleMatches(k) ==
    \/ Contains(Lower(HeaderOr(aheader, OctetStream)), ModelRules[k].word)
    \/ EndsWith(Lower(aurl), ModelRules[k].ext)

MatchingRules == {k \in DOMAIN ModelRules : RuleMatches(k)}

FirstMatchingRule == CHOOSE k \in MatchingRules : \A j \in MatchingRules : k <= j

\* C35: download_asset always resolves an extension and never returns ".jpg": a
\* content type of the table other than the JPEG types yields the table's
\* extension; otherwise the first matching rule of gltf-binary/.glb, gltf/.gltf,
\* obj/.obj, stl/.stl (content type or URL suffix) decides, and ".bin" is returned
\* when none matches, also for an artifact served as image/jpeg.
C35_AssetExtNeverJpg ==
    aext.some =>
        /\ aext.val # <<>>
        /\ aext.val # DotJpg
        /\ IF DictGet(CONTENT_TYPE_MAPPING, AssetType, DotJpg) # DotJpg
           THEN aext.val = DictGet(CONTENT_TYPE_MAPPING, AssetType, <<>>)
           ELSE IF MatchingRules # {}
           THEN aext.val = ModelRules[FirstMatchingRule].ext
           ELSE aext.val = <<".", "b", "i", "n">>

\* an artifact served as image/jpeg under a URL without a 3D suffix
C35_Witness ==
    /\ aext = Some(<<".", "b", "i", "n">>)
    /\ AssetType = ImageJpeg
    /\ MatchingRules = {}

-----------------------------------------------------------------------------
(***************************************************************************)
(* Properties of process_long_task                                         *)
(***************************************************************************)

TaskEnded == kpc \in {"returned", "raised", "cancelled"}

\* the reports of a complete run: 0, then step * 90 / max(1, iterations) for
\* step = 1 .. max(1, iterations), then 100
AllReports ==
    <<Fraction(0, 1)>> \o [step \in 1..TotalSteps |-> Fraction(step * 90, TotalSteps)]
                       \o <<Fraction(100, 1)>>

\* C36: the progress reports are a non-decreasing sequence that starts at 0, has
\* exactly max(1, iterations) step reports step*90/max(1, iterations), none above
\* 90, and ends with one report of 100 before the success envelope is returned; if
\* any report or sleep raises, an error envelope without attachment is returned
\* instead.
C36_ProgressThenEnvelope ==
    /\ reports = SubSeq(AllReports, 1, Len(reports))
    /\ \A k \in DOMAIN reports : \A j \in DOMAIN reports : k <= j => LessEq(reports[k], reports[j])
    /\ \A k \in DOMAIN reports :
            (k > 1 /\ k < TotalSteps + 2) => LessEq(reports[k], Fraction(90, 1))
    /\ (TaskEnded /\ kraised = None) => (reports = AllReports /\ kenv = TaskSuccessEnvelope)
    /\ (TaskEnded /\ kraised # None) =>
            (kpc = "returned" /\ kenv.error # "" /\ kenv.attachments = <<>>)

-----------------------------------------------------------------------------
(***************************************************************************)
(* Further properties of validate_token and require_auth                   *)
(***************************************************************************)

\* a non-None, non-empty string without leading or trailing whitespace
CleanToken(t) == t.some /\ t.val # <<>> /\ Strip(t.val) = t.val

\* C37: validate_token never raises: without a request context it returns
\* (False, None, "Authentication error: ..."), and whenever it returns, is_valid
\* is true exactly when the token is a non-None, non-empty string without leading
\* or trailing whitespace and the error message is empty.
C37_ValidateTokenTotal ==
    vres # NoResult =>
        /\ vres.is_valid \in BOOLEAN
        /\ vres.is_valid <=> (CleanToken(vres.token) /\ vres.error = "")
        /\ ~vres.is_valid => (vres.token = Nothing /\ vres.error # "")
        /\ ~actx => (~vres.is_valid /\ vres.token = Nothing /\ vres.error = NoContext)

\* get_http_request() raised and the wrapper returned the envelope of the failure
C37_Witness ==
    /\ ~actx
    /\ vres.error = NoContext
    /\ apc = "done"
    /\ envelope = AuthFailedEnvelope(NoContext)

Phase1Requests == {k \in DOMAIN net : net[k].kind = "POST /files/upload"}

\* C38: require_auth overwrites the auth_token argument of the caller with the
\* validated token before the tool body runs, and the Authorization header of the
\* phase-1 request is "Bearer " followed by exactly the validated token.
C38_UploadUsesValidatedToken ==
    /\ bodyEntered => (vres.is_valid /\ kwToken = vres.token)
    /\ \A k \in Phase1Requests :
        /\ net[k].authorization = Some(Bearer \o vres.token.val)
        /\ callerToken.some => net[k].authorization # Some(Bearer \o callerToken.val)

\* the caller passed an auth_token of its own and the phase-1 request was sent
C38_Witness ==
    /\ callerToken.some
    /\ Phase1Requests # {}
    /\ vres.token # callerToken

\* C39: the bearer token goes to one destination only: it is in the phase-1
\* request to {API_BASE_URL}/files/upload and in no phase-2 request, no download
\* and no provider job.
C39_TokenOnlyToUploadApi ==
    /\ \A k \in DOMAIN urequests :
        IF urequests[k].to = "API_BASE_URL/files/upload"
        THEN urequests[k].authorization = Some(Bearer \o AuthToken)
        ELSE urequests[k].authorization = Nothing
    /\ \A k \in DOMAIN tnet : tnet[k].authorization = Nothing

\* the job was submitted, the result downloaded and both upload requests sent
C39_Witness ==
    /\ Len(tnet) = 2
    /\ Len(urequests) = 2
    /\ urequests[2].to \in Targets

\* ct = content_type.lower().split(";")[0].strip(), the key the download looks up
LookedUp == Strip(SplitFirst(Lower(ctype.val), ";"))

\* the download recognised the content type: its key is in the table
Recognised == ctype # Nothing /\ ctype.val # <<>> /\ LookedUp \in KeysOf(CONTENT_TYPE_MAPPING)

\* the content type upload_to_s3 declares for a file named with the inferred extension
Declared == ContentTypeOf(<<"a">> \o inferred.val)

\* the canonical types are the ones the upload table can declare
CanonicalTypes == {EXT_TO_CONTENT_TYPE[i][2] : i \in DOMAIN EXT_TO_CONTENT_TYPE}

\* image, audio, video or model: what precedes the "/"
MediaFamily(t) == SplitFirst(t, "/")

\* a recognised content type is never declared as application/octet-stream
RecognisedIsDeclared ==
    (inferred # Nothing /\ Recognised) => Declared # OctetStream

\* C40: every extension the download table yields is a key of the upload table,
\* so a recognised content type is never declared as application/octet-stream;
\* content type -> extension -> content type is the identity on the canonical
\* types and keeps every alias within its media family.
C40_RoundTripKeepsType ==
    (inferred # Nothing /\ Recognised) =>
        /\ inferred.val \in KeysOf(EXT_TO_CONTENT_TYPE)
        /\ Declared # OctetStream
        /\ (LookedUp \in CanonicalTypes => Declared = LookedUp)
        /\ MediaFamily(Declared) = MediaFamily(LookedUp)

=============================================================================
